---- MODULE Spec2Model ----
(***************************************************************************)
(* Model of the rust-sidecar streaming core:                               *)
(*   stream.rs  - WebSocketStream: the virtual byte sink presented to the  *)
(*                sink writer (Write / Seek / Stat) and its box framer     *)
(*                (try_flush);                                             *)
(*   mp4.rs     - Mp4Parser: the fragmented-MP4 rewriter (parse,           *)
(*                patch_moov, patch_moof);                                 *)
(*   main.rs    - the task that drains the outbound queue.                 *)
(*                                                                         *)
(* Bytes are numbers 0..255 and a Vec<u8> is a sequence of them.  Source   *)
(* offsets are 0-based; the helpers below take 0-based offsets.            *)
(*                                                                         *)
(* Integer widths.  TLC's integers are 32-bit signed, so:                  *)
(*  - box sizes (u32) are plain integers; every size field the model reads *)
(*    has a first byte below 128;                                          *)
(*  - cumulative_decode_time (u64) is four 16-bit limbs, least significant *)
(*    first, with arithmetic modulo 2^64; a u32 read for arithmetic with   *)
(*    it is two 16-bit limbs;                                              *)
(*  - position and bytes_flushed (u64) are held as the i64 with the same   *)
(*    bit pattern (two's complement): a negative number n stands for the   *)
(*    u64 value 2^64 + n.  Casts between i64 and u64 are then the          *)
(*    identity, wrapping addition is ordinary addition, and only the       *)
(*    unsigned comparison needs care (ULess).                              *)
(***************************************************************************)
EXTENDS Integers, Sequences, FiniteSets, TLC

VARIABLES
    buffer,          \* StreamState.buffer
    position,        \* StreamState.position
    bytes_flushed,   \* StreamState.bytes_flushed
    parser,          \* Mp4Parser
    queue,           \* segments sent on the unbounded channel, not yet received
    rx_alive,        \* the receiving half of the channel still exists
    delivered,       \* segments the consumer task has received, in order
    released,        \* history: atoms the framer handed to the rewriter
    last,            \* history: the last step taken and its result
    calls,           \* history: how many calls the sink has received
    fn_pc,           \* pure-function harness: "idle", "call" or "done"
    fn_in,           \* pure-function harness: the arguments
    fn_out,          \* pure-function harness: the result
    encoder,         \* VideoEncoder: the fields send_frame reads and writes
    producer,        \* the thread that owns the VideoEncoder: where it is
    frame_chan,      \* messages in the bounded channel of frames
    worker,          \* the transcode thread: where it is, what it holds
    enqueued,        \* history: the messages try_send accepted, in order
    enc_last,        \* history: the last send_frame call and its result
    enc_calls,       \* history: how many send_frame calls were made
    threads,         \* the threads calling into the sink: where each one is
    state_lock,      \* WebSocketStream.state: the thread holding it, or 0
    parser_lock,     \* WebSocketStream.parser: the thread holding it, or 0
    sends,           \* history: for each segment sent, the call that sent it
    order,           \* history: the calls in the order they took the state lock
    tx_slot,         \* WebSocketManager.tx: "None" or "Some"
    tx_lock,         \* the task holding the mutex of tx, or 0
    waiter,          \* main in wait_for_connection: where it is, its Notified
    connector        \* the task running connect_loop: where it is

vars == <<buffer, position, bytes_flushed, parser, queue, rx_alive, delivered,
          released, last, calls, fn_pc, fn_in, fn_out,
          encoder, producer, frame_chan, worker, enqueued, enc_last, enc_calls,
          threads, state_lock, parser_lock, sends, order,
          tx_slot, tx_lock, waiter, connector>>

sinkVars == <<buffer, position, bytes_flushed, parser, queue, rx_alive, delivered,
              released, last, calls>>
fnVars == <<fn_pc, fn_in, fn_out>>
encVars == <<encoder, producer, frame_chan, worker, enqueued, enc_last, enc_calls>>
thrVars == <<threads, state_lock, parser_lock, sends, order>>
wsVars == <<tx_slot, tx_lock, waiter, connector>>

(***************************************************************************)
(* Byte helpers                                                            *)
(***************************************************************************)
\* u32::from_be_bytes([data[i], data[i+1], data[i+2], data[i+3]])
U32(data, i) ==
    ((data[i + 1] * 256 + data[i + 2]) * 256 + data[i + 3]) * 256 + data[i + 4]

\* u32::to_be_bytes
BE32(v) ==
    << (v \div 16777216) % 256, (v \div 65536) % 256, (v \div 256) % 256, v % 256 >>

\* data[i]
At(data, i) == data[i + 1]

\* &data[a..b]
Slice(data, a, b) == SubSeq(data, a + 1, b)

\* data[i..i+len(bytes)].copy_from_slice(bytes)
Put(data, i, bytes) ==
    [k \in 1..Len(data) |->
        IF k > i /\ k <= i + Len(bytes) THEN bytes[k - i] ELSE data[k]]

\* data.drain(a..b), the bytes that stay
Drain(data, a, b) == SubSeq(data, 1, a) \o SubSeq(data, b + 1, Len(data))

\* data.splice(at..at, bytes)
Splice(data, at, bytes) ==
    SubSeq(data, 1, at) \o bytes \o SubSeq(data, at + 1, Len(data))

\* a resize that fills with ones
Resize_dirty(data, n) ==
    IF n > Len(data) THEN data \o [k \in 1..(n - Len(data)) |-> 1] ELSE data

\* vec.resize(n, 0) when n > len
Resize(data, n) ==
    IF n > Len(data) THEN data \o [k \in 1..(n - Len(data)) |-> 0] ELSE data

\* data.windows(n).any(|w| w == pat)
Contains(data, pat) ==
    \E i \in 0..(Len(data) - Len(pat)) : Slice(data, i, i + Len(pat)) = pat

\* The ASCII box types the code compares against.
T_ftyp == <<102, 116, 121, 112>>
T_moov == <<109, 111, 111, 118>>
T_free == <<102, 114, 101, 101>>
T_meta == <<109, 101, 116, 97>>
T_skip == <<115, 107, 105, 112>>
T_moof == <<109, 111, 111, 102>>
T_mdat == <<109, 100, 97, 116>>
T_mfhd == <<109, 102, 104, 100>>
T_traf == <<116, 114, 97, 102>>
T_tfhd == <<116, 102, 104, 100>>
T_tfdt == <<116, 102, 100, 116>>
T_trun == <<116, 114, 117, 110>>
T_iods == <<105, 111, 100, 115>>
T_avc1 == <<97, 118, 99, 49>>
T_tkhd == <<116, 107, 104, 100>>
T_mvex == <<109, 118, 101, 120>>

(***************************************************************************)
(* 64-bit arithmetic on 16-bit limbs (least significant limb first)        *)
(***************************************************************************)
Limb == 256 * 256

\* the u32 at data[i..i+4] as <<low limb, high limb>>
U32Limbs(data, i) ==
    << data[i + 3] * 256 + data[i + 4], data[i + 1] * 256 + data[i + 2] >>

\* (sample_count as u64) * 1000: at most 2^42, so three limbs and a zero
Times1000(sc) ==
    LET p0 == sc[1] * 1000
        p1 == sc[2] * 1000 + (p0 \div Limb)
    IN  << p0 % Limb, p1 % Limb, p1 \div Limb, 0 >>

\* a + b modulo 2^64 (u64 wrapping addition)
Add64(a, b) ==
    LET s1 == a[1] + b[1]
        s2 == a[2] + b[2] + (s1 \div Limb)
        s3 == a[3] + b[3] + (s2 \div Limb)
        s4 == a[4] + b[4] + (s3 \div Limb)
    IN  << s1 % Limb, s2 % Limb, s3 % Limb, s4 % Limb >>

\* (x as u32).to_be_bytes()
LowU32Bytes(x) ==
    << x[2] \div 256, x[2] % 256, x[1] \div 256, x[1] % 256 >>

Zero64 == <<0, 0, 0, 0>>

\* a <= b for limb sequences of the same length
RECURSIVE LimbsLeq(_, _)
LimbsLeq(a, b) ==
    IF Len(a) = 0 THEN TRUE
    ELSE IF a[Len(a)] /= b[Len(b)] THEN a[Len(a)] < b[Len(b)]
    ELSE LimbsLeq(SubSeq(a, 1, Len(a) - 1), SubSeq(b, 1, Len(b) - 1))

(***************************************************************************)
(* mp4.rs: Mp4Parser::patch_moof                                           *)
(* An Option<usize> offset is <<>> (None) or <<off>> (Some(off)).          *)
(***************************************************************************)
\* flags | 0x020000 on the most significant flag byte
SetBaseIsMoof(b) == IF (b \div 2) % 2 = 1 THEN b ELSE b + 2
\* flags & !0x000001 on the least significant flag byte
ClearBit0(b) == b - (b % 2)

\* The inner while loop over the children of one traf (lines 130-142).
RECURSIVE scan_traf(_, _, _, _)
scan_traf(data, j, traf_end, offs) ==
    IF j + 8 > traf_end THEN offs
    ELSE LET child_size == U32(data, j)
         IN  IF child_size < 8 \/ j + child_size > traf_end THEN offs
             ELSE LET child_type == Slice(data, j + 4, j + 8)
                      offs2 == IF child_type = T_tfhd THEN [offs EXCEPT !.tfhd = <<j>>]
                               ELSE IF child_type = T_tfdt THEN [offs EXCEPT !.tfdt = <<j>>]
                               ELSE IF child_type = T_trun THEN [offs EXCEPT !.trun = <<j>>]
                               ELSE offs
                  IN  scan_traf(data, j + child_size, traf_end, offs2)

\* The outer while loop over the children of the moof (lines 113-147).
RECURSIVE scan_moof(_, _, _, _)
scan_moof(data, i, moof_size, offs) ==
    IF i + 8 > moof_size THEN offs
    ELSE LET box_size == U32(data, i)
         IN  IF box_size < 8 \/ i + box_size > moof_size THEN offs
             ELSE LET box_type == Slice(data, i + 4, i + 8)
                      offs2 == IF box_type = T_traf
                               THEN scan_traf(data, i + 8, i + box_size,
                                              [offs EXCEPT !.traf = <<i>>])
                               ELSE offs
                  IN  scan_moof(data, i + box_size, moof_size, offs2)

NoOffsets == [tfhd |-> <<>>, tfdt |-> <<>>, trun |-> <<>>, traf |-> <<>>]

\* Lines 149-182: clear base-data-offset-present, set default-base-is-moof,
\* remove the 8-byte base_data_offset and shrink the tfhd.
\* Returns the data and size_reduction.
patch_tfhd_flags(data, offs) ==
    IF offs.tfhd = <<>> THEN [data |-> data, size_reduction |-> 0]
    ELSE LET off == offs.tfhd[1]
         IN  IF off + 16 > Len(data) \/ At(data, off + 11) % 2 = 0
             THEN [data |-> data, size_reduction |-> 0]
             ELSE LET d1 == Put(data, off + 9,
                                <<SetBaseIsMoof(At(data, off + 9)), At(data, off + 10),
                                  ClearBit0(At(data, off + 11))>>)
                  IN  IF off + 24 > Len(d1)
                      THEN [data |-> d1, size_reduction |-> 0]
                      ELSE LET d2 == Drain(d1, off + 16, off + 24)
                               d3 == Put(d2, off, BE32(U32(d2, off) - 8))
                           IN  [data |-> d3, size_reduction |-> 8]

\* Lines 184-201: shrink traf and moof, move trun_offset.
patch_sizes_after_removal(data, offs, size_reduction) ==
    IF size_reduction = 0 THEN [data |-> data, trun |-> offs.trun]
    ELSE LET d1 == IF offs.traf = <<>> THEN data
                   ELSE Put(data, offs.traf[1],
                            BE32(U32(data, offs.traf[1]) - size_reduction))
             d2 == Put(d1, 0, BE32(U32(d1, 0) - size_reduction))
             tr == IF offs.trun = <<>> THEN <<>>
                   ELSE <<offs.trun[1] - size_reduction>>
         IN  [data |-> d2, trun |-> tr]

tfdt_box_size == 16

\* Lines 203-241: inject a version-0 tfdt after the tfhd when none was found.
inject_tfdt(data, offs, trun_offset, cumulative_decode_time) ==
    IF offs.tfdt /= <<>> \/ offs.tfhd = <<>> \/ offs.traf = <<>>
    THEN [data |-> data, trun |-> trun_offset]
    ELSE LET tfhd_off == offs.tfhd[1]
             traf_off == offs.traf[1]
             insert_point == tfhd_off + U32(data, tfhd_off)
             tfdt_box == BE32(tfdt_box_size) \o T_tfdt \o BE32(0)
                         \o LowU32Bytes(cumulative_decode_time)
             d1 == Splice(data, insert_point, tfdt_box)
             d2 == Put(d1, traf_off, BE32(U32(d1, traf_off) + tfdt_box_size))
             d3 == Put(d2, 0, BE32(U32(d2, 0) + tfdt_box_size))
             tr == IF trun_offset = <<>> THEN <<>>
                   ELSE <<trun_offset[1] + tfdt_box_size>>
         IN  [data |-> d3, trun |-> tr]

\* Lines 243-260: overwrite trun.data_offset with moof size + 8.
patch_trun(data, trun_offset) ==
    IF trun_offset = <<>> THEN data
    ELSE LET off == trun_offset[1]
         IN  IF off + 16 <= Len(data) /\ At(data, off + 11) % 2 = 1 /\ off + 20 <= Len(data)
             THEN Put(data, off + 16, BE32(U32(data, 0) + 8))
             ELSE data

\* Lines 261-268: cumulative_decode_time += sample_count * 1000.
advance_decode_time(data, trun_offset, cumulative_decode_time) ==
    IF trun_offset = <<>> THEN cumulative_decode_time
    ELSE LET off == trun_offset[1]
         IN  IF off + 16 <= Len(data)
             THEN Add64(cumulative_decode_time, Times1000(U32Limbs(data, off + 12)))
             ELSE cumulative_decode_time

\* patch_moof(&mut self, data): the patched bytes and the new
\* self.cumulative_decode_time.
patch_moof(cumulative_decode_time, data) ==
    IF Len(data) < 8 \/ U32(data, 0) > Len(data)
    THEN [data |-> data, cumulative_decode_time |-> cumulative_decode_time]
    ELSE LET offs == scan_moof(data, 8, U32(data, 0), NoOffsets)
             a == patch_tfhd_flags(data, offs)
             b == patch_sizes_after_removal(a.data, offs, a.size_reduction)
             c == inject_tfdt(b.data, offs, b.trun, cumulative_decode_time)
             d == patch_trun(c.data, c.trun)
         IN  [data |-> d,
              cumulative_decode_time |->
                  advance_decode_time(d, c.trun, cumulative_decode_time)]

(***************************************************************************)
(* mp4.rs: find_avc1_dimensions, patch_tkhd, patch_moov                    *)
(***************************************************************************)
SetMin(S) == CHOOSE x \in S : \A y \in S : x <= y
\* n.saturating_sub(k)
SaturatingSub(n, k) == IF n > k THEN n - k ELSE 0
\* u16::from_be_bytes([data[i], data[i+1]])
U16(data, i) == At(data, i) * 256 + At(data, i + 1)

\* Option<(u16, u16)>: <<>> or <<width, height>>, from the first "avc1" whose
\* width and height are readable and non-zero.
find_avc1_dimensions(data) ==
    LET hits == {i \in 0..(SaturatingSub(Len(data), 40) - 1) :
                    /\ Slice(data, i, i + 4) = T_avc1
                    /\ i + 30 + 2 <= Len(data)
                    /\ U16(data, i + 28) > 0
                    /\ U16(data, i + 30) > 0}
    IN  IF hits = {} THEN <<>>
        ELSE LET i == SetMin(hits)
             IN  <<U16(data, i + 28), U16(data, i + 30)>>

\* ((v as u32) << 16).to_be_bytes() for a u16 v
Fixed1616(v) == <<v \div 256, v % 256, 0, 0>>

tkhd_width_offset(version) == IF version = 0 THEN 80 ELSE 92
tkhd_height_offset(version) == IF version = 0 THEN 84 ELSE 96

\* patch_tkhd(data, width, height): the data and the bool returned.
patch_tkhd(data, width, height) ==
    LET hits == {i \in 0..(SaturatingSub(Len(data), 92) - 1) :
                    /\ Slice(data, i, i + 4) = T_tkhd
                    /\ i + tkhd_height_offset(At(data, i + 4)) + 4 <= Len(data)}
    IN  IF hits = {} THEN [data |-> data, ok |-> FALSE]
        ELSE LET i == SetMin(hits)
                 version == At(data, i + 4)
                 d1 == Put(data, i + tkhd_width_offset(version), Fixed1616(width))
                 d2 == Put(d1, i + tkhd_height_offset(version), Fixed1616(height))
             IN  [data |-> d2, ok |-> TRUE]

\* The loop over the direct children of the moov (lines 289-312):
\* new_payload and found_iods.
RECURSIVE moov_children(_, _, _)
moov_children(data, start_pos, acc) ==
    IF start_pos >= Len(data) \/ start_pos + 4 > Len(data) THEN acc
    ELSE LET child_size == U32(data, start_pos)
         IN  IF child_size < 8 \/ start_pos + child_size > Len(data) THEN acc
             ELSE IF Slice(data, start_pos + 4, start_pos + 8) = T_iods
             THEN moov_children(data, start_pos + child_size,
                                [acc EXCEPT !.found_iods = TRUE])
             ELSE moov_children(data, start_pos + child_size,
                                [acc EXCEPT !.new_payload =
                                    @ \o Slice(data, start_pos, start_pos + child_size)])

\* patch_moov writing the old size instead of new_size (line 317)
patch_moov_stale_size(data) ==
    IF Len(data) < 8 \/ U32(data, 0) /= Len(data) THEN data
    ELSE LET w == moov_children(data, 8, [new_payload |-> <<>>, found_iods |-> FALSE])
             result == IF w.found_iods
                       THEN BE32(U32(data, 0)) \o T_moov \o w.new_payload
                       ELSE data
             dims == find_avc1_dimensions(result)
         IN  IF dims = <<>> THEN result
             ELSE patch_tkhd(result, dims[1], dims[2]).data

patch_moov(data) ==
    IF Len(data) < 8 \/ U32(data, 0) /= Len(data) THEN data
    ELSE LET w == moov_children(data, 8, [new_payload |-> <<>>, found_iods |-> FALSE])
             result == IF w.found_iods
                       THEN BE32(8 + Len(w.new_payload)) \o T_moov \o w.new_payload
                       ELSE data
             dims == find_avc1_dimensions(result)
         IN  IF dims = <<>> THEN result
             ELSE patch_tkhd(result, dims[1], dims[2]).data

(***************************************************************************)
(* mp4.rs: Mp4Parser::new, Mp4Parser::parse                                *)
(* init_src and pending_src are history: the release numbers of the atoms  *)
(* whose bytes init_segment and pending_moof hold.  A segment is           *)
(* [kind, data, src]; src lists the release numbers of the atoms in data.  *)
(***************************************************************************)
Mp4Parser_new ==
    [buffer |-> <<>>,
     init_complete |-> FALSE,
     init_segment |-> <<>>,
     pending_moof |-> <<>>,
     cumulative_decode_time |-> Zero64,
     init_src |-> <<>>,
     pending_src |-> <<>>]

Segment(kind, data, src) == [kind |-> kind, data |-> data, src |-> src]

\* Each arm of the match on the atom type (lines 361-421) gives the parser
\* afterwards and the segments pushed.
NoSegment(p) == [parser |-> p, segments |-> <<>>]

\* an ftyp arm that starts the init segment afresh
parse_ftyp_replaces(p, atom_data, id) ==
    NoSegment([p EXCEPT !.init_segment = atom_data, !.init_src = <<id>>])

\* "ftyp" (lines 362-365)
parse_ftyp(p, atom_data, id) ==
    NoSegment([p EXCEPT !.init_segment = @ \o atom_data,
                        !.init_src = Append(@, id)])

\* an arm that refuses the moov when no avc1 dimensions or no tkhd is found
parse_init_box_strict(p, atom_type, atom_data, id) ==
    LET data_to_add == IF atom_type = T_moov THEN patch_moov(atom_data)
                       ELSE atom_data
        seg == p.init_segment \o data_to_add
        src == Append(p.init_src, id)
    IN  IF /\ atom_type = T_moov
           /\ find_avc1_dimensions(atom_data) /= <<>>
           /\ patch_tkhd(atom_data, 1, 1).ok
        THEN [parser |-> [p EXCEPT !.init_segment = <<>>,
                                   !.init_src = <<>>,
                                   !.init_complete = TRUE],
              segments |-> <<Segment("Init", seg, src)>>]
        ELSE IF atom_type = T_moov THEN NoSegment(p)
        ELSE NoSegment([p EXCEPT !.init_segment = seg, !.init_src = src])

\* "moov" | "free" | "meta" | "skip" if !self.init_complete (lines 366-387)
parse_init_box(p, atom_type, atom_data, id) ==
    LET data_to_add == IF atom_type = T_moov THEN patch_moov(atom_data)
                       ELSE atom_data
        seg == p.init_segment \o data_to_add
        src == Append(p.init_src, id)
    IN  IF atom_type = T_moov
        THEN [parser |-> [p EXCEPT !.init_segment = <<>>,
                                   !.init_src = <<>>,
                                   !.init_complete = TRUE],
              segments |-> <<Segment("Init", seg, src)>>]
        ELSE NoSegment([p EXCEPT !.init_segment = seg, !.init_src = src])

\* an assignment that keeps the moof already pending in front of the new one
set_pending_moof_appending(p, r, id) ==
    NoSegment([p EXCEPT !.pending_moof = @ \o r.data,
                        !.pending_src = Append(@, id),
                        !.cumulative_decode_time = r.cumulative_decode_time])

\* self.pending_moof = self.patch_moof(atom_data) (line 391), r being what
\* patch_moof returns and leaves in self.cumulative_decode_time
set_pending_moof(p, r, id) ==
    NoSegment([p EXCEPT !.pending_moof = r.data,
                        !.pending_src = <<id>>,
                        !.cumulative_decode_time = r.cumulative_decode_time])

\* a moof arm that patches and keeps the moof before init_complete as well
parse_moof_ungated(p, atom_data, id) ==
    set_pending_moof(p, patch_moof(p.cumulative_decode_time, atom_data), id)

\* "moof" (lines 388-393)
parse_moof(p, atom_data, id) ==
    IF p.init_complete
    THEN set_pending_moof(p, patch_moof(p.cumulative_decode_time, atom_data), id)
    ELSE NoSegment(p)

\* parse_mdat without the pending_moof.clear() of line 404
parse_mdat_keeps_moof(p, atom_data, id) ==
    IF p.init_complete
    THEN IF p.pending_moof /= <<>>
         THEN [parser |-> p,
               segments |-> <<Segment("Media", p.pending_moof \o atom_data,
                                      Append(p.pending_src, id))>>]
         ELSE [parser |-> p, segments |-> <<Segment("Media", atom_data, <<id>>)>>]
    ELSE NoSegment(p)

\* "mdat" (lines 394-412)
parse_mdat(p, atom_data, id) ==
    IF p.init_complete
    THEN IF p.pending_moof /= <<>>
         THEN [parser |-> [p EXCEPT !.pending_moof = <<>>, !.pending_src = <<>>],
               segments |-> <<Segment("Media", p.pending_moof \o atom_data,
                                      Append(p.pending_src, id))>>]
         ELSE [parser |-> p, segments |-> <<Segment("Media", atom_data, <<id>>)>>]
    ELSE NoSegment(p)

\* parse_other without the test of init_complete of line 414
parse_other_ungated(p, atom_data, id) ==
    [parser |-> p, segments |-> <<Segment("Media", atom_data, <<id>>)>>]

\* _ (lines 413-420)
parse_other(p, atom_data, id) ==
    IF p.init_complete
    THEN [parser |-> p, segments |-> <<Segment("Media", atom_data, <<id>>)>>]
    ELSE NoSegment(p)

\* a match whose init arm has no guard on init_complete
parse_atom_unguarded(p, atom_type, atom_data, id) ==
    IF atom_type = T_ftyp THEN parse_ftyp(p, atom_data, id)
    ELSE IF atom_type \in {T_moov, T_free, T_meta, T_skip}
    THEN parse_init_box(p, atom_type, atom_data, id)
    ELSE IF atom_type = T_moof THEN parse_moof(p, atom_data, id)
    ELSE IF atom_type = T_mdat THEN parse_mdat(p, atom_data, id)
    ELSE parse_other(p, atom_data, id)

parse_atom(p, atom_type, atom_data, id) ==
    IF atom_type = T_ftyp THEN parse_ftyp(p, atom_data, id)
    ELSE IF atom_type \in {T_moov, T_free, T_meta, T_skip} /\ ~p.init_complete
    THEN parse_init_box(p, atom_type, atom_data, id)
    ELSE IF atom_type = T_moof THEN parse_moof(p, atom_data, id)
    ELSE IF atom_type = T_mdat THEN parse_mdat(p, atom_data, id)
    ELSE parse_other(p, atom_data, id)

\* segments.push(..) of the arm taken, r being what the arm gives
push_segments(segments, r) ==
    [parser |-> r.parser, segments |-> segments \o r.segments]

\* The loop of parse (lines 342-422) over self.buffer; st is the parser and
\* the segments pushed so far.
RECURSIVE parse_loop(_, _)
parse_loop(st, id) ==
    IF Len(st.parser.buffer) < 8 THEN st
    ELSE LET p == st.parser
             atom_size == U32(p.buffer, 0)
         IN  IF atom_size < 8
             THEN parse_loop([st EXCEPT !.parser.buffer = Tail(@)], id)
             ELSE IF Len(p.buffer) < atom_size THEN st
             ELSE parse_loop(
                    push_segments(st.segments,
                        parse_atom([p EXCEPT !.buffer = Drain(@, 0, atom_size)],
                                   Slice(p.buffer, 4, 8),
                                   Slice(p.buffer, 0, atom_size), id)),
                    id)

\* parse(&mut self, chunk); id is the release number of chunk.
parse(p, chunk, id) ==
    parse_loop([parser |-> [p EXCEPT !.buffer = @ \o chunk], segments |-> <<>>], id)

(***************************************************************************)
(* stream.rs: WebSocketStream                                              *)
(***************************************************************************)
\* a < b on u64 values held as the i64 of the same bit pattern
ULess(a, b) == IF (a >= 0) = (b >= 0) THEN a < b ELSE a >= 0

\* let _ = self.sender.send(segment.data), for each segment in order:
\* an unbounded channel takes it unless the receiver is gone.
send_all(q, segments, alive) == IF alive THEN q \o segments ELSE q

\* a release that keeps the old parser once the receiver is gone
release_atom_unparsed_when_dead(s, atom_size, r, alive) ==
    [s EXCEPT !.buffer = Drain(@, 0, atom_size),
              !.bytes_flushed = @ + atom_size,
              !.parser = IF alive THEN r.parser ELSE @,
              !.queue = send_all(@, r.segments, alive),
              !.released = Append(@, [data |-> Slice(s.buffer, 0, atom_size),
                                      offset |-> s.bytes_flushed,
                                      position |-> s.position])]

\* The release of the atom at the head of the buffer (lines 64-83): drain it,
\* advance bytes_flushed, keep the parser and send the segments that parse gave
\* (r), and log the release.
release_atom(s, atom_size, r, alive) ==
    [s EXCEPT !.buffer = Drain(@, 0, atom_size),
              !.bytes_flushed = @ + atom_size,
              !.parser = r.parser,
              !.queue = send_all(@, r.segments, alive),
              !.released = Append(@, [data |-> Slice(s.buffer, 0, atom_size),
                                      offset |-> s.bytes_flushed,
                                      position |-> s.position])]

\* try_flush without the test of position against the end of the atom
RECURSIVE try_flush_ungated(_, _)
try_flush_ungated(s, alive) ==
    IF Len(s.buffer) < 8 THEN s
    ELSE LET atom_size == U32(s.buffer, 0)
         IN  IF atom_size < 8
             THEN try_flush_ungated([s EXCEPT !.buffer = Tail(@),
                                              !.bytes_flushed = @ + 1], alive)
             ELSE IF Len(s.buffer) < atom_size THEN s
             ELSE try_flush_ungated(
                    release_atom(s, atom_size,
                                 parse(s.parser, Slice(s.buffer, 0, atom_size),
                                       Len(s.released) + 1),
                                 alive),
                    alive)

\* try_flush on s = [buffer, position, bytes_flushed, parser, queue, released]
\* with the channel's receiver alive or not.
RECURSIVE try_flush(_, _)
try_flush(s, alive) ==
    IF Len(s.buffer) < 8 THEN s
    ELSE LET atom_size == U32(s.buffer, 0)
         IN  IF atom_size < 8
             THEN try_flush([s EXCEPT !.buffer = Tail(@),
                                      !.bytes_flushed = @ + 1], alive)
             ELSE IF Len(s.buffer) < atom_size THEN s
             ELSE IF ULess(s.position, s.bytes_flushed + atom_size) THEN s
             ELSE try_flush(
                    release_atom(s, atom_size,
                                 parse(s.parser, Slice(s.buffer, 0, atom_size),
                                       Len(s.released) + 1),
                                 alive),
                    alive)

SinkState ==
    [buffer |-> buffer, position |-> position, bytes_flushed |-> bytes_flushed,
     parser |-> parser, queue |-> queue, released |-> released]

\* the state the call leaves behind the locks
StoreSink(s) ==
    /\ buffer' = s.buffer
    /\ position' = s.position
    /\ bytes_flushed' = s.bytes_flushed
    /\ parser' = s.parser
    /\ queue' = s.queue
    /\ released' = s.released

\* Write with the cursor advanced before the watermark test of line 102
Write_late_check(data) ==
    IF ULess(position, bytes_flushed)
    THEN /\ last' = [op |-> "Write", ret |-> "E_FAIL", data |-> data]
         /\ position' = position + Len(data)
         /\ UNCHANGED <<buffer, bytes_flushed, parser, queue, released>>
    ELSE /\ StoreSink(try_flush([SinkState EXCEPT
                                    !.buffer = Put(Resize(buffer,
                                                          position - bytes_flushed + Len(data)),
                                                   position - bytes_flushed, data),
                                    !.position = position + Len(data)], rx_alive))
         /\ last' = [op |-> "Write", ret |-> "S_OK", data |-> data,
                     pcbwritten |-> Len(data)]

\* ISequentialStream_Impl::Write(pv, cb, pcbwritten) with data = pv[0..cb].
Write(data) ==
    IF ULess(position, bytes_flushed)
    THEN /\ last' = [op |-> "Write", ret |-> "E_FAIL", data |-> data]
         /\ UNCHANGED <<buffer, position, bytes_flushed, parser, queue, released>>
    ELSE LET cb == Len(data)
             pos_in_buffer == position - bytes_flushed
             end_pos_in_buffer == pos_in_buffer + cb
             grown == Resize(buffer, end_pos_in_buffer)
         IN  /\ StoreSink(try_flush([SinkState EXCEPT
                                        !.buffer = Put(grown, pos_in_buffer, data),
                                        !.position = position + cb], rx_alive))
             /\ last' = [op |-> "Write", ret |-> "S_OK", data |-> data,
                         pcbwritten |-> cb]

\* STREAM_SEEK_SET, STREAM_SEEK_CUR, STREAM_SEEK_END
SEEK_SET == 0
SEEK_CUR == 1
SEEK_END == 2

\* Seek without the clamp of lines 137-140
Seek_unclamped(dlibmove, dworigin) ==
    IF dworigin \notin {SEEK_SET, SEEK_CUR, SEEK_END}
    THEN /\ last' = [op |-> "Seek", ret |-> "E_NOTIMPL", dlibmove |-> dlibmove,
                     dworigin |-> dworigin]
         /\ UNCHANGED <<buffer, position, bytes_flushed, parser, queue, released>>
    ELSE LET target == IF dworigin = SEEK_SET THEN dlibmove
                       ELSE IF dworigin = SEEK_CUR THEN position + dlibmove
                       ELSE bytes_flushed + Len(buffer) + dlibmove
         IN  /\ position' = target
             /\ last' = [op |-> "Seek", ret |-> "Ok", dlibmove |-> dlibmove,
                         dworigin |-> dworigin, plibnewposition |-> target]
             /\ UNCHANGED <<buffer, bytes_flushed, parser, queue, released>>

\* a Seek that runs try_flush once the cursor is set
Seek_flushing(dlibmove, dworigin) ==
    IF dworigin \notin {SEEK_SET, SEEK_CUR, SEEK_END}
    THEN /\ last' = [op |-> "Seek", ret |-> "E_NOTIMPL", dlibmove |-> dlibmove,
                     dworigin |-> dworigin]
         /\ UNCHANGED <<buffer, position, bytes_flushed, parser, queue, released>>
    ELSE LET target == IF dworigin = SEEK_SET THEN dlibmove
                       ELSE IF dworigin = SEEK_CUR THEN position + dlibmove
                       ELSE bytes_flushed + Len(buffer) + dlibmove
             newpos == IF ULess(target, bytes_flushed) THEN bytes_flushed ELSE target
         IN  /\ StoreSink(try_flush([SinkState EXCEPT !.position = newpos], rx_alive))
             /\ last' = [op |-> "Seek", ret |-> "Ok", dlibmove |-> dlibmove,
                         dworigin |-> dworigin, plibnewposition |-> newpos]

\* IStream_Impl::Seek(dlibmove, dworigin, plibnewposition)
Seek(dlibmove, dworigin) ==
    IF dworigin \notin {SEEK_SET, SEEK_CUR, SEEK_END}
    THEN /\ last' = [op |-> "Seek", ret |-> "E_NOTIMPL", dlibmove |-> dlibmove,
                     dworigin |-> dworigin]
         /\ UNCHANGED <<buffer, position, bytes_flushed, parser, queue, released>>
    ELSE LET target == IF dworigin = SEEK_SET THEN dlibmove
                       ELSE IF dworigin = SEEK_CUR THEN position + dlibmove
                       ELSE bytes_flushed + Len(buffer) + dlibmove
             newpos == IF ULess(target, bytes_flushed) THEN bytes_flushed ELSE target
         IN  /\ position' = newpos
             /\ last' = [op |-> "Seek", ret |-> "Ok", dlibmove |-> dlibmove,
                         dworigin |-> dworigin, plibnewposition |-> newpos]
             /\ UNCHANGED <<buffer, bytes_flushed, parser, queue, released>>

\* IStream_Impl::Stat
Stat ==
    /\ last' = [op |-> "Stat", ret |-> "Ok", cbSize |-> bytes_flushed + Len(buffer)]
    /\ UNCHANGED <<buffer, position, bytes_flushed, parser, queue, released>>

(***************************************************************************)
(* main.rs: the task draining the outbound queue                           *)
(***************************************************************************)
\* rx.recv().await returning Some(data)
Recv ==
    /\ rx_alive
    /\ queue /= <<>>
    /\ delivered' = Append(delivered, Head(queue))
    /\ queue' = Tail(queue)
    /\ last' = [op |-> "Recv"]
    /\ UNCHANGED <<buffer, position, bytes_flushed, parser, released, rx_alive, calls,
                   fnVars, encVars, thrVars, wsVars>>

\* The runtime is torn down: the task and its receiver are dropped, and what
\* the channel still held is dropped with it.
DropReceiver ==
    /\ rx_alive
    /\ rx_alive' = FALSE
    /\ queue' = <<>>
    /\ last' = [op |-> "DropReceiver"]
    /\ UNCHANGED <<buffer, position, bytes_flushed, parser, released, delivered, calls,
                   fnVars, encVars, thrVars, wsVars>>

(***************************************************************************)
(* Inputs: boxes as the sink writer lays them out                          *)
(***************************************************************************)
Box(type, payload) == BE32(8 + Len(payload)) \o type \o payload

T_sdtp == <<115, 100, 116, 112>>

\* mfhd: version/flags, sequence_number
mfhd_box == Box(T_mfhd, <<0, 0, 0, 0, 0, 0, 0, 1>>)

\* tfhd: version/flags, track_ID, base_data_offset when flag 0x01 is set,
\* default_sample_duration when flag 0x08 is set.
tfhd_box(flags) ==
    Box(T_tfhd, <<0, 0, 0, flags>> \o <<0, 0, 0, 1>>
                \o (IF flags % 2 = 1 THEN <<0, 0, 0, 0, 0, 0, 2, 88>> ELSE <<>>)
                \o (IF (flags \div 8) % 2 = 1 THEN <<0, 0, 3, 232>> ELSE <<>>))

\* trun: version/flags, sample_count, data_offset when flag 0x01 is set, one
\* sample_size per sample when flag 0x0200 is set (given as the entries).
trun_box(flags_mid, flags_low, sample_count, data_offset, entries) ==
    Box(T_trun, <<0, 0, flags_mid, flags_low>> \o sample_count
                \o (IF flags_low % 2 = 1 THEN data_offset ELSE <<>>)
                \o entries)

\* tfdt version 0: baseMediaDecodeTime
tfdt_box_v0(time) == Box(T_tfdt, <<0, 0, 0, 0>> \o time)

sdtp_box == Box(T_sdtp, <<>>)

TrunVariants ==
    {trun_box(0, f, sc, off, <<>>) :
        f \in {0, 1}, sc \in {<<0, 0, 0, 1>>, <<0, 0, 0, 60>>},
        off \in {<<0, 0, 2, 112>>, <<0, 0, 2, 113>>}}
    \cup {trun_box(2, 1, <<0, 0, 0, 1>>, off, <<0, 0, 4, 0>>) :
        off \in {<<0, 0, 2, 112>>, <<0, 0, 2, 113>>}}

TfhdVariants == {tfhd_box(f) : f \in {0, 1, 8, 9}}

\* The children of a traf, in each order the model tries.
TrafLayouts ==
    UNION {{ <<h, r>>, <<r, h>>, <<h, sdtp_box, r>>, <<sdtp_box, r, h>>,
             <<h, tfdt_box_v0(<<0, 0, 0, 7>>), r>>, <<h>> } :
           h \in TfhdVariants, r \in TrunVariants}

RECURSIVE Concat(_)
Concat(seqs) == IF seqs = <<>> THEN <<>> ELSE Head(seqs) \o Concat(Tail(seqs))

traf_box(kids) == Box(T_traf, Concat(kids))

\* moof boxes: with or without an mfhd before the traf.
MoofInputs ==
    UNION {{ Box(T_moof, traf_box(kids)),
             Box(T_moof, mfhd_box \o traf_box(kids)) } : kids \in TrafLayouts}

CumulativeInputs == {Zero64, <<60000, 0, 0, 0>>}

(***************************************************************************)
(* Initial states                                                          *)
(***************************************************************************)
\* WebSocketManager::new (websocket.rs:21-30), before main spawns connect_loop:
\* the slot is empty
WebSocketManager_new ==
    /\ tx_slot = "None"
    /\ tx_lock = 0
    /\ waiter = [pc |-> "main", notified |-> "none"]
    /\ connector = [pc |-> "unspawned", scheme |-> "ws", failures |-> 0]

\* The threads that call into the sink.
Threads == {1, 2}

\* a thread that is in no call
Returned_thread == [pc |-> "returned"]

\* WebSocketStream::new, the channel of main.rs, nothing called yet
InitSink ==
    /\ buffer = <<>>
    /\ position = 0
    /\ bytes_flushed = 0
    /\ parser = Mp4Parser_new
    /\ queue = <<>>
    /\ rx_alive = TRUE
    /\ delivered = <<>>
    /\ released = <<>>
    /\ last = [op |-> "new"]
    /\ calls = 0
    /\ threads = [t \in Threads |-> Returned_thread]
    /\ state_lock = 0
    /\ parser_lock = 0
    /\ sends = <<>>
    /\ order = <<>>
    /\ WebSocketManager_new

\* VideoEncoder::new was not called: no encoder, no channel, no worker
NoEncoder ==
    /\ encoder = <<>>
    /\ producer = [pc |-> "none"]
    /\ frame_chan = <<>>
    /\ worker = [pc |-> "none"]
    /\ enqueued = <<>>
    /\ enc_last = [op |-> "none"]
    /\ enc_calls = 0

Init ==
    /\ InitSink
    /\ NoEncoder
    /\ fn_pc = "idle"
    /\ fn_in = <<>>
    /\ fn_out = <<>>

(***************************************************************************)
(* Spec: the sink under any calls of the sink writer, byte by byte         *)
(***************************************************************************)
\* Largest stream offset the model lets the cursor reach.
MaxPos == 24
\* Most calls (Write, Seek, Stat) the sink receives in a session.
MaxCalls == 6

\* What one Write may carry: whole header-only boxes, the first 12 bytes of a
\* 16-byte box of type 0, four zero bytes, and a size field of 12.
WriteData ==
    {Box(T_ftyp, <<>>), Box(T_moov, <<>>), Box(T_moof, <<>>), Box(T_mdat, <<>>),
     <<0, 0, 0, 16, 0, 0, 0, 0, 0, 0, 0, 0>>,
     <<0, 0, 0, 0>>,
     <<0, 0, 0, 12>>}

\* <<dworigin, dlibmove>>; origin 3 is none of SET, CUR, END
SeekArgs ==
    {<<SEEK_SET, 0>>, <<SEEK_SET, 4>>, <<SEEK_SET, -4>>,
     <<SEEK_CUR, -4>>, <<SEEK_CUR, 4>>,
     <<SEEK_END, 0>>, <<SEEK_END, -4>>,
     <<3, 0>>}

Called ==
    /\ calls < MaxCalls
    /\ calls' = calls + 1
    /\ UNCHANGED <<rx_alive, delivered, fnVars, encVars, thrVars, wsVars>>

SinkWrite ==
    \E data \in WriteData :
        /\ position >= 0
        /\ position + Len(data) <= MaxPos
        /\ Write(data)
        /\ Called

SinkSeek ==
    \E a \in SeekArgs :
        /\ Seek(a[2], a[1])
        /\ position' <= MaxPos
        /\ position' >= -MaxPos
        /\ Called

SinkStat == Stat /\ Called

Next == SinkWrite \/ SinkSeek \/ SinkStat \/ Recv \/ DropReceiver

Spec == Init /\ [][Next]_vars

(***************************************************************************)
(* SpecMoof: patch_moof as a function of (cumulative_decode_time, moof)    *)
(***************************************************************************)
InitMoof ==
    /\ InitSink
    /\ NoEncoder
    /\ fn_pc = "call"
    /\ fn_in \in [cumulative_decode_time : CumulativeInputs, data : MoofInputs]
    /\ fn_out = <<>>

CallPatchMoof ==
    /\ fn_pc = "call"
    /\ fn_out' = patch_moof(fn_in.cumulative_decode_time, fn_in.data)
    /\ fn_pc' = "done"
    /\ UNCHANGED <<fn_in, sinkVars, encVars, thrVars, wsVars>>

NextMoof == CallPatchMoof

SpecMoof == InitMoof /\ [][NextMoof]_vars

(***************************************************************************)
(* SpecSession: the sink writer writes one whole top-level box per Write,  *)
(* so every Write releases that box to the rewriter; the consumer task     *)
(* drains the queue.                                                       *)
(***************************************************************************)
T_styp == <<115, 116, 121, 112>>

ftyp_box == Box(T_ftyp, <<105, 115, 111, 109>>)
moov_box == Box(T_moov, Box(T_mvex, <<>>))
free_box == Box(T_free, <<>>)
styp_box == Box(T_styp, <<>>)
mdat_box == Box(T_mdat, <<1, 2, 3, 4>>)
\* mfhd, traf(tfhd with base_data_offset, trun with data_offset, 1 sample)
moof_box ==
    Box(T_moof, mfhd_box \o traf_box(<<tfhd_box(1),
            trun_box(0, 1, <<0, 0, 0, 1>>, <<0, 0, 2, 112>>, <<>>)>>))

\* the same moof with the trun before the tfhd
moof_trun_first ==
    Box(T_moof, mfhd_box \o traf_box(<<
            trun_box(0, 1, <<0, 0, 0, 1>>, <<0, 0, 2, 112>>, <<>>), tfhd_box(1)>>))

SessionBoxes ==
    {ftyp_box, moov_box, free_box, styp_box, mdat_box, moof_box, moof_trun_first}

\* Most boxes the sink writer writes in a session.
MaxBoxes == 4

WriteBox(boxes, max) ==
    \E data \in boxes :
        /\ calls < max
        /\ Write(data)
        /\ calls' = calls + 1
        /\ UNCHANGED <<rx_alive, delivered, fnVars, encVars, thrVars, wsVars>>

SessionWrite == WriteBox(SessionBoxes, MaxBoxes)

NextSession == SessionWrite \/ Recv

SpecSession == Init /\ [][NextSession]_vars

(***************************************************************************)
(* SpecDecode: whole boxes again, in sessions long enough for the decode   *)
(* time to pass 2^32: moofs of one sample and of 4 294 967 samples.        *)
(***************************************************************************)
\* 4 294 967 = 0x00418937 samples: 1000 ticks each is just under 2^32
moof_long ==
    Box(T_moof, mfhd_box \o traf_box(<<tfhd_box(1),
            trun_box(0, 1, <<0, 65, 137, 55>>, <<0, 0, 2, 112>>, <<>>)>>))
DecodeBoxes == {moov_box, mdat_box, moof_box, moof_long}

\* Most boxes the sink writer writes in a session of SpecDecode.
MaxDecodeBoxes == 6

DecodeWrite == WriteBox(DecodeBoxes, MaxDecodeBoxes)

NextDecode == DecodeWrite

SpecDecode == Init /\ [][NextDecode]_vars

(***************************************************************************)
(* Reading a box structure back (used by the properties only)              *)
(***************************************************************************)
\* The boxes laid end to end in data[a..b): [off, size, type] each.  A box that
\* does not fit ends the list with an entry of size 0.
RECURSIVE Boxes(_, _, _)
Boxes(data, a, b) ==
    IF a >= b THEN <<>>
    ELSE IF a + 8 > b \/ U32(data, a) < 8 \/ a + U32(data, a) > b
    THEN <<[off |-> a, size |-> 0, type |-> <<>>]>>
    ELSE <<[off |-> a, size |-> U32(data, a), type |-> Slice(data, a + 4, a + 8)]>>
         \o Boxes(data, a + U32(data, a), b)

Tiled(bs) == \A k \in 1..Len(bs) : bs[k].size > 0
OfType(bs, t) == SelectSeq(bs, LAMBDA x : x.type = t)
BoxBytes(data, x) == Slice(data, x.off, x.off + x.size)

\* data is one moof box that is exactly as long as it declares.
IsMoof(data) ==
    Len(data) >= 8 /\ U32(data, 0) = Len(data) /\ Slice(data, 4, 8) = T_moof

MoofKids(data) == Boxes(data, 8, Len(data))
\* the children of the moof's only traf (<<>> unless there is exactly one traf)
TrafKids(data) ==
    LET trafs == OfType(MoofKids(data), T_traf)
    IN  IF Len(trafs) /= 1 THEN <<>>
        ELSE Boxes(data, trafs[1].off + 8, trafs[1].off + trafs[1].size)

\* data is a moof whose children tile it, with one traf whose children tile it
TidyMoof(data) ==
    /\ IsMoof(data)
    /\ Tiled(MoofKids(data))
    /\ Len(OfType(MoofKids(data), T_traf)) = 1
    /\ Tiled(TrafKids(data))

\* tf_flags / tr_flags bits of the full box at x
BaseDataOffsetPresent(data, x) == At(data, x.off + 11) % 2 = 1
DefaultBaseIsMoof(data, x) == (At(data, x.off + 9) \div 2) % 2 = 1
DataOffsetPresent(data, x) == At(data, x.off + 11) % 2 = 1

(***************************************************************************)
(* C7  moof patch law: a moof whose tfhd has base-data-offset-present set  *)
(* and which has no tfdt comes out of patch_moof with the flag cleared,    *)
(* default-base-is-moof set, a 16-byte tfdt right after the tfhd, declared *)
(* moof, traf and tfhd sizes equal to their lengths, and a moof size of    *)
(* old size - 8 + 16, whatever the order of the children of the traf.      *)
(***************************************************************************)
MoofPatchPre(m) ==
    /\ TidyMoof(m)
    /\ Len(OfType(TrafKids(m), T_tfhd)) = 1
    /\ Len(OfType(TrafKids(m), T_tfdt)) = 0
    /\ BaseDataOffsetPresent(m, OfType(TrafKids(m), T_tfhd)[1])
    /\ OfType(TrafKids(m), T_tfhd)[1].size >= 24

MoofPatchPost(m, o) ==
    /\ TidyMoof(o)
    /\ U32(o, 0) = U32(m, 0) - 8 + 16
    /\ LET kids == TrafKids(o)
       IN  \E k \in 1..(Len(kids) - 1) :
              /\ kids[k].type = T_tfhd
              /\ ~BaseDataOffsetPresent(o, kids[k])
              /\ DefaultBaseIsMoof(o, kids[k])
              /\ kids[k].size = OfType(TrafKids(m), T_tfhd)[1].size - 8
              /\ kids[k + 1].type = T_tfdt
              /\ kids[k + 1].size = 16

\* C7: every call of patch_moof on a moof meeting MoofPatchPre returns one meeting
\* MoofPatchPost, whatever the order of the children of the traf
MoofPatchLaw ==
    (fn_pc = "done" /\ MoofPatchPre(fn_in.data)) => MoofPatchPost(fn_in.data, fn_out.data)

\* the tfhd of the traf precedes its trun
TfhdBeforeTrun(m) ==
    LET kids == TrafKids(m)
    IN  \A i, j \in 1..Len(kids) :
           (kids[i].type = T_trun /\ kids[j].type = T_tfhd) => j < i

\* the law of C7 restricted to the moofs whose tfhd precedes the trun
MoofPatchLawTfhdFirst ==
    (fn_pc = "done" /\ MoofPatchPre(fn_in.data) /\ TfhdBeforeTrun(fn_in.data))
        => MoofPatchPost(fn_in.data, fn_out.data)

(***************************************************************************)
(* C8  trun data_offset: a moof whose trun has data-offset-present set     *)
(* comes out with that trun's data_offset equal to the final moof size + 8 *)
(* and with no other byte of the trun changed.                             *)
(***************************************************************************)
TrunPre(m) ==
    /\ TidyMoof(m)
    /\ Len(OfType(TrafKids(m), T_trun)) = 1
    /\ DataOffsetPresent(m, OfType(TrafKids(m), T_trun)[1])
    /\ OfType(TrafKids(m), T_trun)[1].size >= 20

TrunPost(m, o) ==
    /\ TidyMoof(o)
    /\ Len(OfType(TrafKids(o), T_trun)) = 1
    /\ BoxBytes(o, OfType(TrafKids(o), T_trun)[1])
         = Put(BoxBytes(m, OfType(TrafKids(m), T_trun)[1]), 16, BE32(Len(o) + 8))

\* C8: the trun of the returned moof is the trun of the input with its data_offset
\* field, and nothing else, replaced by the final moof size + 8
TrunDataOffset ==
    (fn_pc = "done" /\ TrunPre(fn_in.data)) => TrunPost(fn_in.data, fn_out.data)

\* the law of C8 restricted to the moofs whose tfhd precedes the trun
TrunDataOffsetTfhdFirst ==
    (fn_pc = "done" /\ TrunPre(fn_in.data) /\ TfhdBeforeTrun(fn_in.data))
        => TrunPost(fn_in.data, fn_out.data)

(***************************************************************************)
(* Properties of the sink and the session                                  *)
(***************************************************************************)
\* every segment sent so far, in the order sent (while the receiver lives)
Emitted == delivered \o queue

\* bytes_flushed <= position, as u64
Watermark == ~ULess(position, bytes_flushed)

(***************************************************************************)
(* C1  Watermark invariant: in every state reachable by Write, Seek and    *)
(* Stat calls, the recovery drops of try_flush included,                   *)
(* bytes_flushed <= position.                                              *)
(***************************************************************************)
\* C1: bytes_flushed <= position in every reachable state
WatermarkInvariant == Watermark

(***************************************************************************)
(* C2  The first segment placed on the outbound queue is an Init: no Media *)
(* segment is sent before it.                                              *)
(***************************************************************************)
\* C2: the first segment sent, if any, is an Init
FirstSegmentIsInit == Emitted /= <<>> => Emitted[1].kind = "Init"

FirstSegmentIsInitWitness ==
    /\ Len(Emitted) >= 2
    /\ Emitted[2].kind = "Media"
    /\ \E k \in 1..Len(released) :
          k < Emitted[1].src[1] /\ Slice(released[k].data, 4, 8) \in {T_mdat, T_styp}

(***************************************************************************)
(* C3  Segment ordering: the boxes in the segments sent appear in the      *)
(* order in which the sink writer produced them, and the consumer receives *)
(* the segments in the order they were sent.                               *)
(***************************************************************************)
RECURSIVE SrcOf(_)
SrcOf(segs) == IF segs = <<>> THEN <<>> ELSE Head(segs).src \o SrcOf(Tail(segs))

Increasing(ns) == \A i, j \in 1..Len(ns) : i < j => ns[i] < ns[j]

\* C3: the released atoms the segments sent were built from are in increasing
\* order of release
SegmentOrdering == Increasing(SrcOf(Emitted))

(***************************************************************************)
(* C4  Shape of a Media segment.  As claimed: a single unknown top-level   *)
(* box, or a patched moof immediately followed by its mdat.  As the code   *)
(* has it: a single top-level box of any type but ftyp and moof, or        *)
(* a patched moof immediately followed by the first mdat released after    *)
(* that moof.                                                              *)
(***************************************************************************)
KnownTypes == {T_ftyp, T_moov, T_free, T_meta, T_skip, T_moof, T_mdat}
TypeOf(data) == Slice(data, 4, 8)

\* seg is a patched moof followed by the bytes of the first mdat released
\* after the moof it was patched from
MoofThenMdat(seg) ==
    /\ Len(seg.src) = 2
    /\ seg.src[1] < seg.src[2]
    /\ TypeOf(released[seg.src[1]].data) = T_moof
    /\ TypeOf(released[seg.src[2]].data) = T_mdat
    /\ \A k \in (seg.src[1] + 1)..(seg.src[2] - 1) :
          TypeOf(released[k].data) /= T_mdat
    /\ Len(seg.data) >= 8
    /\ TypeOf(seg.data) = T_moof
    /\ U32(seg.data, 0) + Len(released[seg.src[2]].data) = Len(seg.data)
    /\ Slice(seg.data, U32(seg.data, 0), Len(seg.data)) = released[seg.src[2]].data

LoneBox(seg, types) ==
    /\ Len(seg.src) = 1
    /\ seg.data = released[seg.src[1]].data
    /\ TypeOf(seg.data) \in types

\* every top-level type of the model's inputs
InputTypes == KnownTypes \cup {T_styp, <<0, 0, 0, 0>>}

SeekClamp ==
    [][(/\ last'.op = "Seek"
        /\ last'.dworigin = SEEK_SET
        /\ ULess(last'.dlibmove, bytes_flushed))
       => (/\ last'.ret = "Ok"
           /\ position' = bytes_flushed
           /\ last'.plibnewposition = bytes_flushed
           /\ bytes_flushed' = bytes_flushed)]_vars

SeekClampWitness ==
    /\ last.op = "Seek"
    /\ last.dworigin = SEEK_SET
    /\ ULess(last.dlibmove, bytes_flushed)
    /\ bytes_flushed >= 8
    /\ position = bytes_flushed

(***************************************************************************)
(* C6  A Write issued while position < bytes_flushed fails with E_FAIL and *)
(* leaves buffer, position, bytes_flushed, the rewriter and the outbound   *)
(* queue unchanged.                                                        *)
(***************************************************************************)
\* C6: a Write step taken with position < bytes_flushed returns E_FAIL and changes
\* none of buffer, position, bytes_flushed, parser, queue
WriteBelowWatermark ==
    [][(last'.op = "Write" /\ ULess(position, bytes_flushed))
       => (/\ last'.ret = "E_FAIL"
           /\ UNCHANGED <<buffer, position, bytes_flushed, parser, queue>>)]_vars

WriteBelowWatermarkWitness ==
    /\ last.op = "Write"
    /\ last.ret = "E_FAIL"
    /\ ULess(position, bytes_flushed)

(***************************************************************************)
(* C9  Every moof sent in a Media segment carries a tfdt, and the          *)
(* baseMediaDecodeTime values of the moofs sent are non-decreasing.        *)
(***************************************************************************)
MediaMoofs ==
    SelectSeq(Emitted, LAMBDA seg :
        seg.kind = "Media" /\ Len(seg.data) >= 8 /\ TypeOf(seg.data) = T_moof)

MoofOf(seg) == Slice(seg.data, 0, U32(seg.data, 0))

\* the baseMediaDecodeTime of the moof's tfdt: <<>> without one, else <<limbs>>
TfdtOf(m) ==
    LET t == OfType(TrafKids(m), T_tfdt)
    IN  IF Len(t) = 0 THEN <<>> ELSE <<U32Limbs(m, t[1].off + 12)>>

\* C9: every moof sent has a tfdt and the tfdt values sent are non-decreasing
TfdtMonotone ==
    /\ \A i \in 1..Len(MediaMoofs) : TfdtOf(MoofOf(MediaMoofs[i])) /= <<>>
    /\ \A i, j \in 1..Len(MediaMoofs) :
          i < j => LimbsLeq(TfdtOf(MoofOf(MediaMoofs[i]))[1],
                            TfdtOf(MoofOf(MediaMoofs[j]))[1])

(***************************************************************************)
(* C10  Decode-time monotonicity: each moof processed after init_complete  *)
(* adds exactly 1000 times the sample_count of its trun to                 *)
(* cumulative_decode_time, and nothing else changes it.                    *)
(***************************************************************************)
\* the sample_count of the moof's trun, as limbs (0 without a trun)
SampleCountOf(m) ==
    LET t == OfType(TrafKids(m), T_trun)
    IN  IF Len(t) = 0 THEN <<0, 0>> ELSE U32Limbs(m, t[1].off + 12)

\* C10: a step changes cumulative_decode_time only by processing a moof after
\* init_complete, and then by exactly 1000 * sample_count
DecodeTimeAdvance ==
    [][IF last'.op = "Write" /\ last'.ret = "S_OK" /\ IsMoof(last'.data)
          /\ parser.init_complete
       THEN parser'.cumulative_decode_time =
                Add64(parser.cumulative_decode_time,
                      Times1000(SampleCountOf(last'.data)))
       ELSE parser'.cumulative_decode_time = parser.cumulative_decode_time]_vars

(***************************************************************************)
(* SpecMoov: patch_moov as a pure function over moov boxes                 *)
(***************************************************************************)
T_trak == <<116, 114, 97, 107>>
T_mdia == <<109, 100, 105, 97>>

\* n bytes that are neither zero nor part of a box type the code looks for
Fill(n) == [k \in 1..n |-> (k % 7) + 1]

\* u16::to_be_bytes
BE16(v) == <<v \div 256, v % 256>>

\* tkhd: version/flags, then the fields up to the matrix (72 bytes in
\* version 0, 84 in version 1), then width and height as 16.16 fixed point.
tkhd_box(version, width, height) ==
    Box(T_tkhd, <<version, 0, 0, 3>> \o Fill(IF version = 0 THEN 72 ELSE 84)
                \o Fixed1616(width) \o Fixed1616(height))

\* avc1 visual sample entry: 24 bytes up to the width, width and height as
\* u16, then the 50 remaining bytes of the entry.
avc1_box(width, height) ==
    Box(T_avc1, Fill(24) \o BE16(width) \o BE16(height) \o Fill(50))

iods_box == Box(T_iods, <<0, 0, 0, 0, 16, 7, 0, 79>>)
mvex_box == Box(T_mvex, Fill(16))

TkhdVariants == {tkhd_box(v, d, d) : v \in {0, 1}, d \in {0, 5}}
Avc1Variants ==
    {avc1_box(d[1], d[2]) : d \in {<<0, 0>>, <<640, 360>>, <<1920, 1080>>, <<0, 720>>}}

\* The children of a moov, in each layout the model tries; the boxes between
\* mdia and avc1 (minf, stbl, stsd) are left out: the code scans raw bytes.
MoovLayouts ==
    UNION {{ <<Box(T_trak, tk \o Box(T_mdia, av)), mvex_box>>,
             <<iods_box, Box(T_trak, tk \o Box(T_mdia, av)), mvex_box>>,
             <<Box(T_trak, tk \o Box(T_mdia, av)), iods_box, mvex_box, iods_box>>,
             <<mvex_box, iods_box, Box(T_trak, Box(T_mdia, av) \o tk)>>,
             <<iods_box, Box(T_trak, tk), mvex_box>>,
             <<iods_box, mvex_box>> } :
           tk \in TkhdVariants, av \in Avc1Variants}

MoovInputs == {Box(T_moov, Concat(kids)) : kids \in MoovLayouts}

InitMoov ==
    /\ InitSink
    /\ NoEncoder
    /\ fn_pc = "call"
    /\ fn_in \in [data : MoovInputs]
    /\ fn_out = <<>>

CallPatchMoov ==
    /\ fn_pc = "call"
    /\ fn_out' = [data |-> patch_moov(fn_in.data)]
    /\ fn_pc' = "done"
    /\ UNCHANGED <<fn_in, sinkVars, encVars, thrVars, wsVars>>

NextMoov == CallPatchMoov

SpecMoov == InitMoov /\ [][NextMoov]_vars

(***************************************************************************)
(* Properties of patch_moov                                                *)
(***************************************************************************)
\* data is one moov box, as long as it declares, whose children tile it
TidyMoov(data) ==
    /\ Len(data) >= 8
    /\ U32(data, 0) = Len(data)
    /\ Slice(data, 4, 8) = T_moov
    /\ Tiled(Boxes(data, 8, Len(data)))

MoovKids(data) == Boxes(data, 8, Len(data))

\* the bytes of the children of the moov that are not iods, in order
RECURSIVE KeptBytes(_, _)
KeptBytes(data, kids) ==
    IF kids = <<>> THEN <<>>
    ELSE (IF Head(kids).type = T_iods THEN <<>> ELSE BoxBytes(data, Head(kids)))
         \o KeptBytes(data, Tail(kids))

\* the moov with every iods child removed and the size rewritten
WithoutIods(m) ==
    LET kept == KeptBytes(m, MoovKids(m))
    IN  BE32(8 + Len(kept)) \o T_moov \o kept

HasIods(m) == Len(OfType(MoovKids(m), T_iods)) > 0

\* 0-based offsets at which pat occurs in data
Occurrences(data, pat) ==
    {i \in 0..(Len(data) - Len(pat)) : Slice(data, i, i + Len(pat)) = pat}

\* the offsets at which a and b differ (both of the same length)
DiffAt(a, b) == {i \in 0..(Len(a) - 1) : At(a, i) /= At(b, i)}

\* the 8 bytes of the width and height of the tkhd whose type is at t
TkhdDimsAt(data, t) ==
    LET w == t + tkhd_width_offset(At(data, t + 4)) IN w..(w + 7)

\* C11 as claimed: the children of the result are the children of the input
\* without the iods ones, byte for byte, and the declared size is the length
MoovIodsRemovedClaimed ==
    (fn_pc = "done" /\ TidyMoov(fn_in.data) /\ HasIods(fn_in.data))
        => fn_out.data = WithoutIods(fn_in.data)

\* C11 as the code has it: the result is a moov as long as it declares, 8 +
\* the sizes of the kept children, and equals the input without its iods
\* children except within the width and height of the first tkhd
MoovIodsRemoved ==
    (fn_pc = "done" /\ TidyMoov(fn_in.data) /\ HasIods(fn_in.data))
        => LET e == WithoutIods(fn_in.data)
               o == fn_out.data
           IN  /\ Len(o) = Len(e)
               /\ U32(o, 0) = Len(o)
               /\ TidyMoov(o)
               /\ [k \in 1..Len(MoovKids(o)) |->
                      <<MoovKids(o)[k].type, MoovKids(o)[k].size>>]
                  = [k \in 1..Len(MoovKids(e)) |->
                      <<MoovKids(e)[k].type, MoovKids(e)[k].size>>]
               /\ OfType(MoovKids(o), T_iods) = <<>>
               /\ \/ o = e
                  \/ /\ Occurrences(e, T_tkhd) /= {}
                     /\ DiffAt(o, e) \subseteq TkhdDimsAt(e, SetMin(Occurrences(e, T_tkhd)))

MoovIodsRemovedWitness ==
    /\ fn_pc = "done"
    /\ TidyMoov(fn_in.data)
    /\ Len(OfType(MoovKids(fn_in.data), T_iods)) = 2
    /\ fn_out.data /= WithoutIods(fn_in.data)
    /\ Len(fn_out.data) = Len(fn_in.data) - 32

\* the offsets of the avc1 types whose width and height are readable and
\* non-zero
Avc1WithDims(data) ==
    {i \in Occurrences(data, T_avc1) :
        /\ i + 32 <= Len(data)
        /\ U16(data, i + 28) > 0
        /\ U16(data, i + 30) > 0}

\* m has an avc1 entry with non-zero dimensions and a tkhd of version 0 or 1
\* that is whole
TkhdPre(m) ==
    /\ TidyMoov(m)
    /\ Avc1WithDims(m) /= {}
    /\ Occurrences(m, T_tkhd) /= {}
    /\ LET t == SetMin(Occurrences(m, T_tkhd))
       IN  /\ At(m, t + 4) \in {0, 1}
           /\ t + (IF At(m, t + 4) = 0 THEN 88 ELSE 100) <= Len(m)

\* o is m without its iods children and with the width and height of its
\* first tkhd set to those of the avc1 entry, as 16.16 fixed point
TkhdPost(m, o) ==
    LET e == WithoutIods(m)
        a == SetMin(Avc1WithDims(e))
        t == SetMin(Occurrences(e, T_tkhd))
        w == t + (IF At(e, t + 4) = 0 THEN 80 ELSE 92)
    IN  o = Put(Put(e, w, BE16(U16(e, a + 28)) \o <<0, 0>>),
                w + 4, BE16(U16(e, a + 30)) \o <<0, 0>>)

\* C12: the first tkhd of the patched moov has the avc1 width and height as
\* 16.16 fixed point at +80, +84 (version 0) or +92, +96 (version 1), and no
\* other byte differs from the input without its iods children
TkhdDimensions ==
    (fn_pc = "done" /\ TkhdPre(fn_in.data)) => TkhdPost(fn_in.data, fn_out.data)

\* at least 92 bytes follow the type field of the first tkhd
TkhdNotAtEnd(m) ==
    LET e == WithoutIods(m) IN SetMin(Occurrences(e, T_tkhd)) + 92 < Len(e)

\* the law of C12 restricted to the moovs whose first tkhd is not at the end
TkhdDimensionsNotAtEnd ==
    (fn_pc = "done" /\ TkhdPre(fn_in.data) /\ TkhdNotAtEnd(fn_in.data))
        => TkhdPost(fn_in.data, fn_out.data)

TkhdDimensionsWitness ==
    /\ fn_pc = "done"
    /\ TkhdPre(fn_in.data)
    /\ TkhdNotAtEnd(fn_in.data)
    /\ HasIods(fn_in.data)
    /\ At(fn_in.data, SetMin(Occurrences(fn_in.data, T_tkhd)) + 4) = 1
    /\ fn_out.data /= WithoutIods(fn_in.data)

(***************************************************************************)
(* encoder_patched.rs: the frame normalizer of VideoEncoder::send_frame    *)
(* (lines 511-540) and the alignment of VideoEncoder::new (lines 267-274)  *)
(* Widths and heights are u32; those of the model are far below 2^30, so   *)
(* width * 4 does not wrap.                                                *)
(***************************************************************************)
\* rounding up to the next multiple of 16 instead of down
align16_up(v) == ((v + 15) \div 16) * 16

\* (video_settings.width / 16) * 16
align16(v) == (v \div 16) * 16

\* VideoEncoder::new: the encoder object, with the frame size the worker
\* thread gives to both media types (video_settings of line 274).
VideoEncoder_new(width, height, disabled, audio_disabled) ==
    [first_timestamp |-> <<>>,
     is_video_disabled |-> disabled,
     is_audio_disabled |-> audio_disabled,
     target_width |-> align16(width),
     target_height |-> align16(height),
     has_thread |-> TRUE,
     media_frame_size |-> <<align16(width), align16(height)>>]

Min(a, b) == IF a < b THEN a ELSE b

\* vec![0u8; n]
Zeros(n) == [k \in 1..n |-> 0]

\* the loop over the rows without the flip: dst_row = src_row
RECURSIVE copy_rows_unflipped(_, _, _, _, _, _, _)
copy_rows_unflipped(new_buffer, raw_data, i, copy_rows, input_stride, output_stride, copy_width) ==
    IF i >= copy_rows THEN new_buffer
    ELSE LET src_start == i * input_stride
             src_end == src_start + copy_width
             dst_start == i * output_stride
         IN  copy_rows_unflipped(
                IF src_end <= Len(raw_data) /\ dst_start + copy_width <= Len(new_buffer)
                THEN Put(new_buffer, dst_start, Slice(raw_data, src_start, src_end))
                ELSE new_buffer,
                raw_data, i + 1, copy_rows, input_stride, output_stride, copy_width)

\* The body of the loop over the rows (lines 528-540) from row i on.
RECURSIVE copy_rows_from(_, _, _, _, _, _, _)
copy_rows_from(new_buffer, raw_data, i, copy_rows, input_stride, output_stride, copy_width) ==
    IF i >= copy_rows THEN new_buffer
    ELSE LET src_start == i * input_stride
             src_end == src_start + copy_width
             dst_start == (copy_rows - 1 - i) * output_stride
         IN  copy_rows_from(
                IF src_end <= Len(raw_data) /\ dst_start + copy_width <= Len(new_buffer)
                THEN Put(new_buffer, dst_start, Slice(raw_data, src_start, src_end))
                ELSE new_buffer,
                raw_data, i + 1, copy_rows, input_stride, output_stride, copy_width)

\* the normalizer without the flip of the rows
normalize_unflipped(width, height, raw_data, target_width, target_height) ==
    copy_rows_unflipped(Zeros((target_width * 4) * target_height), raw_data, 0,
                        Min(height, target_height), width * 4, target_width * 4,
                        Min(width, target_width) * 4)

\* new_buffer as send_frame builds it from a frame of width x height whose
\* raw buffer is raw_data, for the encoder's target size.
normalize(width, height, raw_data, target_width, target_height) ==
    copy_rows_from(Zeros((target_width * 4) * target_height), raw_data, 0,
                   Min(height, target_height), width * 4, target_width * 4,
                   Min(width, target_width) * 4)

\* The raw buffer of a captured frame of width x height: 4 bytes per pixel,
\* rows of width * 4 bytes, no byte zero and each row different.
raw_frame(width, height) ==
    [k \in 1..(width * height * 4) |-> ((k * 7 + (k \div 5)) % 251) + 1]

\* the configured sizes and the frame sizes the model tries
MaxDim == 33
ConfiguredDims == {0, 15, 16, 17, 31, 32, MaxDim}
FrameDims == {<<8, 8>>, <<16, 16>>, <<20, 12>>, <<12, 20>>, <<40, 36>>}

InitNormalize ==
    /\ InitSink
    /\ NoEncoder
    /\ fn_pc = "call"
    /\ fn_in \in [W : ConfiguredDims, H : ConfiguredDims, frame : FrameDims]
    /\ fn_out = <<>>

\* what new and the normalizer of send_frame give for the encoder e
normalized_by(e, frame) ==
    [enc |-> e,
     data |-> normalize(frame[1], frame[2], raw_frame(frame[1], frame[2]),
                        e.target_width, e.target_height)]

CallNormalize ==
    /\ fn_pc = "call"
    /\ fn_out' = normalized_by(VideoEncoder_new(fn_in.W, fn_in.H, FALSE, TRUE), fn_in.frame)
    /\ fn_pc' = "done"
    /\ UNCHANGED <<fn_in, sinkVars, encVars, thrVars, wsVars>>

NextNormalize == CallNormalize

SpecNormalize == InitNormalize /\ [][NextNormalize]_vars

(***************************************************************************)
(* Properties of the alignment and the normalizer                          *)
(***************************************************************************)
\* C18: the target size of the normalizer and the frame size of the media
\* types are both (W - W mod 16, H - H mod 16), and the normalized buffer has
\* exactly target_width * target_height * 4 bytes
DimensionAlignment ==
    fn_pc = "done" =>
        /\ fn_out.enc.target_width = fn_in.W - (fn_in.W % 16)
        /\ fn_out.enc.target_height = fn_in.H - (fn_in.H % 16)
        /\ fn_out.enc.media_frame_size
             = <<fn_in.W - (fn_in.W % 16), fn_in.H - (fn_in.H % 16)>>
        /\ Len(fn_out.data) = fn_out.enc.target_width * fn_out.enc.target_height * 4

DimensionAlignmentWitness ==
    /\ fn_pc = "done"
    /\ fn_in.W = 31
    /\ fn_in.H = 17
    /\ Len(fn_out.data) = 16 * 16 * 4

\* row r (0-based) of a buffer whose rows are stride bytes long, columns a..b-1
RowPart(data, stride, r, a, b) == Slice(data, r * stride + a, r * stride + b)

\* C19: row copy_h-1-i of the normalized buffer holds the first copy_w*4 bytes
\* of source row i for every i < copy_h, and every byte in a row >= copy_h or
\* a column >= copy_w*4 is zero
VerticalFlip ==
    fn_pc = "done" =>
        LET w == fn_in.frame[1]
            h == fn_in.frame[2]
            tw == fn_out.enc.target_width
            th == fn_out.enc.target_height
            copy_w == Min(w, tw)
            copy_h == Min(h, th)
            src == raw_frame(w, h)
        IN  /\ Len(fn_out.data) = tw * 4 * th
            /\ \A i \in 0..(copy_h - 1) :
                  RowPart(fn_out.data, tw * 4, copy_h - 1 - i, 0, copy_w * 4)
                    = RowPart(src, w * 4, i, 0, copy_w * 4)
            /\ \A r \in 0..(th - 1) : \A c \in 0..(tw * 4 - 1) :
                  (r >= copy_h \/ c >= copy_w * 4) => At(fn_out.data, r * tw * 4 + c) = 0

\* a frame narrower and lower than the target, and one wider and higher
VerticalFlipWitness ==
    /\ fn_pc = "done"
    /\ fn_out.enc.target_width = 16
    /\ fn_out.enc.target_height = 32
    /\ fn_in.frame = <<12, 20>>
    /\ RowPart(fn_out.data, 64, 19, 0, 48) = RowPart(raw_frame(12, 20), 48, 0, 0, 48)
    /\ RowPart(fn_out.data, 64, 19, 0, 48) /= RowPart(fn_out.data, 64, 0, 0, 48)
    /\ At(fn_out.data, 20 * 64) = 0

(***************************************************************************)
(* encoder_patched.rs: the producer, the bounded channel and the worker    *)
(***************************************************************************)
\* Most send_frame calls of a session.
MaxFrames == 3

\* Frame::timestamp() values, in 100-ns ticks
Timestamps == {10, 20}

\* The frames the capture callback may hand to send_frame: timestamp is <<t>>
\* when Frame::timestamp() gives t ticks and <<>> when it fails, buffer_ok is
\* whether Frame::buffer() succeeds.
Frame(timestamp, color_format, buffer_ok) ==
    [timestamp |-> timestamp, color_format |-> color_format, width |-> 8, height |-> 8,
     buffer_ok |-> buffer_ok]

Frames ==
    {Frame(<<t>>, "Bgra8", TRUE) : t \in Timestamps}
      \cup {Frame(<<>>, "Bgra8", TRUE), Frame(<<10>>, "Bgra8", FALSE),
            Frame(<<20>>, "Rgba16F", TRUE)}

\* buffer.as_raw_buffer(): 4 bytes per pixel for Bgra8, 8 for Rgba16F
frame_raw_buffer(frame) ==
    raw_frame(IF frame.color_format = "Bgra8" THEN frame.width ELSE 2 * frame.width,
              frame.height)

\* Some((VideoEncoderSource::Buffer(new_buffer), timestamp))
BufferMsg(new_buffer, timestamp) ==
    [kind |-> "Buffer", data |-> new_buffer, timestamp |-> timestamp]

\* None
NoneMsg == [kind |-> "None"]

\* send_frame up to the try_send (lines 500-540): the return value when it
\* returns early, the encoder as it leaves it, and the message it built.
send_frame_prepare(e, frame) ==
    IF e.is_video_disabled
    THEN [ret |-> "VideoDisabled", enc |-> e, msg |-> <<>>]
    ELSE IF frame.timestamp = <<>>
    THEN [ret |-> "WindowsError", enc |-> e, msg |-> <<>>]
    ELSE IF ~frame.buffer_ok
    THEN [ret |-> "IoError",
          enc |-> IF e.first_timestamp = <<>>
                  THEN [e EXCEPT !.first_timestamp = frame.timestamp] ELSE e,
          msg |-> <<>>]
    ELSE [ret |-> "try_send",
          enc |-> IF e.first_timestamp = <<>>
                  THEN [e EXCEPT !.first_timestamp = frame.timestamp] ELSE e,
          msg |-> BufferMsg(normalize(frame.width, frame.height, frame_raw_buffer(frame),
                                      e.target_width, e.target_height),
                            IF e.first_timestamp = <<>> THEN 0
                            ELSE frame.timestamp[1] - e.first_timestamp[1])]

\* a channel that takes a third message
try_send_cap3(chan, receiver_alive, msg) ==
    IF ~receiver_alive THEN [ret |-> "Disconnected", chan |-> chan]
    ELSE IF Len(chan) >= 3 THEN [ret |-> "Full", chan |-> chan]
    ELSE [ret |-> "Ok", chan |-> Append(chan, msg)]

\* SyncSender::try_send on the channel of mpsc::sync_channel(2)
try_send(chan, receiver_alive, msg) ==
    IF ~receiver_alive THEN [ret |-> "Disconnected", chan |-> chan]
    ELSE IF Len(chan) >= 2 THEN [ret |-> "Full", chan |-> chan]
    ELSE [ret |-> "Ok", chan |-> Append(chan, msg)]

\* a match that reports a disconnected channel as a dropped frame
send_frame_result_drop_on_disconnect(r) ==
    IF r = "Ok" THEN "Ok" ELSE "FrameDropped"

\* the match of lines 542-561 on the result of try_send
send_frame_result(r) ==
    IF r = "Ok" THEN "Ok" ELSE IF r = "Full" THEN "FrameDropped" ELSE "VideoDisabled"

\* the thread holds frame_receiver until its closure returns
receiver_alive == worker.pc \notin {"none", "exited"}

\* frame_sender is a field of the VideoEncoder and is dropped with it
sender_alive == producer.pc \notin {"none", "gone"}

\* StreamApp::on_frame_arrived: what the capture handler returns when
\* send_frame returned ret
on_frame_arrived(ret) ==
    IF ret \in {"Ok", "FrameDropped"} THEN "Ok" ELSE ret

\* p, the outcome of the first half of send_frame, becomes the next state
StorePrepared(p, frame) ==
    /\ encoder' = p.enc
    /\ producer' = IF p.ret = "try_send" THEN [pc |-> "try_send", msg |-> p.msg]
                   ELSE producer
    /\ enc_last' = [op |-> "send_frame", frame |-> frame,
                    t0 |-> encoder.first_timestamp, ret |-> p.ret, enqueued |-> FALSE,
                    handler |-> IF p.ret = "try_send" THEN "pending"
                                ELSE on_frame_arrived(p.ret)]

\* first half of send_frame: checks, timestamp, normalizer
SendFramePrepare ==
    \E frame \in Frames :
        /\ producer.pc = "running"
        /\ enc_calls < MaxFrames
        /\ enc_calls' = enc_calls + 1
        /\ StorePrepared(send_frame_prepare(encoder, frame), frame)
        /\ UNCHANGED <<frame_chan, worker, enqueued, sinkVars, fnVars, thrVars, wsVars>>

\* r, the outcome of try_send, becomes the next state
StoreSent(r) ==
    /\ frame_chan' = r.chan
    /\ enqueued' = IF r.ret = "Ok"
                   THEN Append(enqueued, [frame |-> enc_last.frame,
                                          timestamp |-> producer.msg.timestamp,
                                          len |-> Len(producer.msg.data),
                                          nth_call |-> enc_calls])
                   ELSE enqueued
    /\ enc_last' = [enc_last EXCEPT !.ret = send_frame_result(r.ret),
                                    !.enqueued = (r.ret = "Ok"),
                                    !.handler = on_frame_arrived(send_frame_result(r.ret))]

\* second half of send_frame: try_send and the match on its result
SendFrameTrySend ==
    /\ producer.pc = "try_send"
    /\ StoreSent(try_send(frame_chan, receiver_alive, producer.msg))
    /\ producer' = [pc |-> "running"]
    /\ UNCHANGED <<encoder, worker, enc_calls, sinkVars, fnVars, thrVars, wsVars>>

\* finish(self) is called
FinishCall ==
    /\ producer.pc = "running"
    /\ producer' = [pc |-> "finish_send"]
    /\ enc_last' = [op |-> "finish", ret |-> "pending"]
    /\ UNCHANGED <<encoder, frame_chan, worker, enqueued, enc_calls, sinkVars, fnVars, thrVars, wsVars>>

\* SyncSender::send(None): returns at once when the receiver is gone, waits
\* for room otherwise
send_none(next_pc) ==
    /\ ~receiver_alive \/ Len(frame_chan) < 2
    /\ frame_chan' = IF receiver_alive THEN Append(frame_chan, NoneMsg) ELSE frame_chan
    /\ producer' = [pc |-> next_pc]
    /\ UNCHANGED <<encoder, worker, enqueued, enc_last, enc_calls, sinkVars, fnVars, thrVars, wsVars>>

\* finish: let _ = self.frame_sender.send(None) (line 579)
FinishSend ==
    /\ producer.pc = "finish_send"
    /\ send_none("finish_join")

\* a finish that discards what the thread returned
finish_result_discarded(w) == [op |-> "finish", ret |-> "Ok", at |-> "none"]

\* t.join().expect("Thread panicked")? and Ok(()) (lines 581-584): what finish
\* returns is what the closure returned, the error being named by the step
\* that raised it
finish_result(w) == [op |-> "finish", ret |-> w.result, at |-> w.at]

\* a take that leaves the handle in place
take_thread_kept(e) == e

\* self.transcode_thread.take(): the Option is None afterwards
take_thread(e) == [e EXCEPT !.has_thread = FALSE]

\* t.join() when take() gave Some(t): the thread has been joined once more
join_thread(w, has_thread) == IF has_thread THEN [w EXCEPT !.joins = @ + 1] ELSE w

\* finish: the join of the thread (lines 581-583), which waits for the closure
\* to return; then self goes out of scope and Drop runs.
FinishJoin ==
    /\ producer.pc = "finish_join"
    /\ encoder.has_thread => worker.pc = "exited"
    /\ worker' = join_thread(worker, encoder.has_thread)
    /\ encoder' = take_thread(encoder)
    /\ enc_last' = IF encoder.has_thread THEN finish_result(worker)
                   ELSE [op |-> "finish", ret |-> "Ok", at |-> "none"]
    /\ producer' = [pc |-> "drop_send"]
    /\ UNCHANGED <<frame_chan, enqueued, enc_calls, sinkVars, fnVars, thrVars, wsVars>>

\* the VideoEncoder is dropped without finish
DropCall ==
    /\ producer.pc = "running"
    /\ producer' = [pc |-> "drop_send"]
    /\ enc_last' = [op |-> "drop", ret |-> "pending"]
    /\ UNCHANGED <<encoder, frame_chan, worker, enqueued, enc_calls, sinkVars, fnVars, thrVars, wsVars>>

\* Drop: let _ = self.frame_sender.send(None) (line 590)
DropSend ==
    /\ producer.pc = "drop_send"
    /\ send_none("drop_join")

\* Drop: the join of the thread when the handle is still there (lines
\* 591-593), then the fields are dropped. After a finish the result finish
\* returned stays the last result.
DropJoin ==
    /\ producer.pc = "drop_join"
    /\ encoder.has_thread => worker.pc = "exited"
    /\ worker' = join_thread(worker, encoder.has_thread)
    /\ encoder' = take_thread(encoder)
    /\ enc_last' = IF enc_last.op = "finish" THEN enc_last
                   ELSE [op |-> "drop", ret |-> "done"]
    /\ producer' = [pc |-> "gone"]
    /\ UNCHANGED <<frame_chan, enqueued, enc_calls, sinkVars, fnVars, thrVars, wsVars>>

\* the closure returns: result is its value, at is the step that returned
worker_exit(w, result, at) ==
    [w EXCEPT !.pc = "exited", !.result = result, !.at = at, !.msg = <<>>]

\* Media Foundation setup up to BeginWriting (lines 276-390): any call may fail
WorkerInit ==
    /\ worker.pc = "init"
    /\ \E ok \in BOOLEAN :
          /\ worker' = IF ok THEN [worker EXCEPT !.pc = "recv"]
                       ELSE worker_exit(worker, "Err", "init")
          /\ frame_chan' = IF ok THEN frame_chan ELSE <<>>
    /\ UNCHANGED <<encoder, producer, enqueued, enc_last, enc_calls, sinkVars, fnVars, thrVars, wsVars>>

\* a loop that goes on after None
worker_on_msg_ignores_none(w, msg) ==
    IF msg.kind = "Buffer" THEN [w EXCEPT !.pc = "sample", !.msg = msg]
    ELSE w

\* the match on msg (lines 400-422)
worker_on_msg(w, msg) ==
    IF msg.kind = "Buffer" THEN [w EXCEPT !.pc = "sample", !.msg = msg]
    ELSE IF msg.kind = "None" THEN [w EXCEPT !.pc = "finalize"]
    ELSE w

\* frame_receiver.lock().recv() (lines 395-398): a message, or Err when the
\* channel is empty and the sender is gone
WorkerRecv ==
    /\ worker.pc = "recv"
    /\ frame_chan /= <<>> \/ ~sender_alive
    /\ worker' = IF frame_chan /= <<>> THEN worker_on_msg(worker, Head(frame_chan))
                 ELSE [worker EXCEPT !.pc = "finalize"]
    /\ frame_chan' = IF frame_chan /= <<>> THEN Tail(frame_chan) ELSE frame_chan
    /\ UNCHANGED <<encoder, producer, enqueued, enc_last, enc_calls, sinkVars, fnVars, thrVars, wsVars>>

\* sample.SetSampleDuration(10_000_000 / 60) (line 417)
sample_duration == 10000000 \div 60

\* the sample is built and submitted (lines 401-419): any call may fail
WorkerWriteSample ==
    /\ worker.pc = "sample"
    /\ \E ok \in BOOLEAN :
          /\ worker' = IF ok
                       THEN [worker EXCEPT
                               !.pc = "recv", !.msg = <<>>,
                               !.samples = Append(@, [time |-> worker.msg.timestamp,
                                                      duration |-> sample_duration,
                                                      len |-> Len(worker.msg.data)])]
                       ELSE worker_exit(worker, "Err", "sample")
          /\ frame_chan' = IF ok THEN frame_chan ELSE <<>>
    /\ UNCHANGED <<encoder, producer, enqueued, enc_last, enc_calls, sinkVars, fnVars, thrVars, wsVars>>

\* writer.Finalize()? and the end of the closure (lines 425-426)
WorkerFinalize ==
    /\ worker.pc = "finalize"
    /\ \E ok \in BOOLEAN :
          worker' = [worker_exit(worker, IF ok THEN "Ok" ELSE "Err", "finalize")
                       EXCEPT !.finalized = TRUE, !.finalizes = @ + 1]
    /\ frame_chan' = <<>>
    /\ UNCHANGED <<encoder, producer, enqueued, enc_last, enc_calls, sinkVars, fnVars, thrVars, wsVars>>

\* main.rs: the window's client size
EncoderConfigs == {<<20, 17>>}

\* VideoSettingsBuilder: frame_rate is 60 unless frame_rate() sets another
FrameRates == {30, 60}

\* VideoEncoder::new has returned: the thread is spawned, the channel empty.
\* video and audio are the values the disabled flags of the settings may have.
EncoderStarted(video, audio) ==
    /\ InitSink
    /\ fn_pc = "idle"
    /\ fn_in = <<>>
    /\ fn_out = <<>>
    /\ \E c \in EncoderConfigs : \E v \in video : \E a \in audio :
          encoder = VideoEncoder_new(c[1], c[2], v, a)
    /\ producer = [pc |-> "running"]
    /\ frame_chan = <<>>
    /\ \E frame_rate \in FrameRates :
          worker = [pc |-> "init", frame_rate |-> frame_rate, msg |-> <<>>,
                    samples |-> <<>>, finalized |-> FALSE, result |-> "none",
                    at |-> "none", finalizes |-> 0, joins |-> 0]
    /\ enqueued = <<>>
    /\ enc_last = [op |-> "new"]
    /\ enc_calls = 0

\* StreamApp::new: video enabled, audio disabled
InitEncoder == EncoderStarted({FALSE}, {TRUE})

NextEncoder ==
    \/ SendFramePrepare \/ SendFrameTrySend
    \/ FinishCall \/ FinishSend \/ FinishJoin
    \/ DropCall \/ DropSend \/ DropJoin
    \/ WorkerInit \/ WorkerRecv \/ WorkerWriteSample \/ WorkerFinalize

SpecEncoder == InitEncoder /\ [][NextEncoder]_vars

\* Both threads are scheduled: the worker takes its next step when it has
\* one, and a finish or drop that was called goes on when it can.
SpecEncoderFair ==
    /\ SpecEncoder
    /\ WF_vars(WorkerInit) /\ WF_vars(WorkerRecv)
    /\ WF_vars(WorkerWriteSample) /\ WF_vars(WorkerFinalize)
    /\ WF_vars(FinishSend) /\ WF_vars(FinishJoin)
    /\ WF_vars(DropSend) /\ WF_vars(DropJoin)

(***************************************************************************)
(* Properties of the producer, the channel and the worker                  *)
(***************************************************************************)
\* C13: the channel never holds more than 2 messages; a try_send made with 2
\* messages pending makes send_frame return FrameDropped and enqueues nothing;
\* and whatever the worker has done, a send_frame that reached its try_send
\* can take that step and return
BackpressureLaw ==
    /\ [](Len(frame_chan) <= 2)
    /\ [][(producer.pc = "try_send" /\ producer'.pc = "running" /\ Len(frame_chan) = 2)
          => (/\ enc_last'.ret = "FrameDropped"
              /\ frame_chan' = frame_chan
              /\ enqueued' = enqueued)]_vars
    /\ [](producer.pc = "try_send" => ENABLED SendFrameTrySend)

\* two frames pending, the worker has taken none, the third call dropped
BackpressureLawWitness ==
    /\ enc_last.op = "send_frame"
    /\ enc_last.ret = "FrameDropped"
    /\ producer.pc = "running"
    /\ enc_calls = 3
    /\ Len(frame_chan) = 2
    /\ Len(enqueued) = 2
    /\ worker.pc \in {"init", "recv"}
    /\ worker.samples = <<>>

\* C14: the relative timestamps of the messages accepted into the channel are
\* non-negative and non-decreasing in the order of acceptance
TimestampMonotone ==
    /\ \A i \in 1..Len(enqueued) : enqueued[i].timestamp >= 0
    /\ \A i \in 1..Len(enqueued) : \A j \in i..Len(enqueued) :
          enqueued[i].timestamp <= enqueued[j].timestamp

\* C15: the first message accepted into the channel has relative timestamp 0,
\* whatever the earlier send_frame calls returned
FirstAcceptedIsZero ==
    enqueued /= <<>> => enqueued[1].timestamp = 0

\* a send_frame call has returned, for a frame whose timestamp and buffer
\* could be read
Returned ==
    /\ producer.pc = "running"
    /\ enc_last.op = "send_frame"
    /\ enc_last.frame.timestamp /= <<>>
    /\ enc_last.frame.buffer_ok

\* C16: a send_frame call for a frame whose capture timestamp is earlier than
\* the recorded first timestamp returns a Timestamp error and enqueues nothing
NegativeTimestampRejected ==
    (/\ Returned
     /\ enc_last.t0 /= <<>>
     /\ enc_last.frame.timestamp[1] < enc_last.t0[1])
    => (enc_last.ret = "Timestamp" /\ ~enc_last.enqueued)

\* C17: a send_frame call for a frame that is not 32-bit BGRA returns
\* UnsupportedFormat and the frame is never among the accepted messages
NonBgraRejected ==
    /\ (Returned /\ enc_last.frame.color_format /= "Bgra8")
         => (enc_last.ret = "UnsupportedFormat" /\ ~enc_last.enqueued)
    /\ \A i \in 1..Len(enqueued) : enqueued[i].frame.color_format = "Bgra8"

\* finish or Drop has been entered and its send(None) is under way
Cancelled == producer.pc \in {"finish_send", "drop_send"}

FinalizeOnce ==
    /\ worker.finalizes <= 1
    /\ worker.joins <= 1

\* finish returned and the Drop that follows it has run: one Finalize, one join
FinalizeOnceWitness ==
    /\ producer.pc = "gone"
    /\ enc_last.op = "finish"
    /\ ~encoder.has_thread
    /\ worker.finalizes = 1
    /\ worker.joins = 1

\* C23: for every configured frame_rate, the i-th sample the worker submits has
\* the relative timestamp of the i-th accepted frame as its sample time and
\* 10_000_000 / frame_rate as its sample duration
SampleTiming ==
    \A i \in 1..Len(worker.samples) :
        /\ i <= Len(enqueued)
        /\ worker.samples[i].time = enqueued[i].timestamp
        /\ worker.samples[i].duration = 10000000 \div worker.frame_rate

(***************************************************************************)
(* SpecFanout: whole boxes, with the consumer of the outbound queue going  *)
(* away at any moment                                                      *)
(***************************************************************************)
NextFanout == SessionWrite \/ Recv \/ DropReceiver

SpecFanout == Init /\ [][NextFanout]_vars

\* the sink as Write(data) has it when it calls try_flush
Written(data) ==
    [SinkState EXCEPT
        !.buffer = Put(Resize(buffer, position - bytes_flushed + Len(data)),
                       position - bytes_flushed, data),
        !.position = position + Len(data)]

\* the next state has the cursor, the watermark, the staging buffer and the
\* rewriter of s
SameSinkAs(s) ==
    /\ position' = s.position
    /\ bytes_flushed' = s.bytes_flushed
    /\ buffer' = s.buffer
    /\ parser' = s.parser

\* C24: a Write made after the consumer of the outbound queue has gone away
\* returns S_OK and leaves position, bytes_flushed, the staging buffer and the
\* rewriter (init_complete, pending_moof, cumulative_decode_time) exactly as
\* the same Write with a live consumer would
FanoutFailureNonFatal ==
    [][(last'.op = "Write" /\ ~rx_alive)
         => (/\ last'.ret = "S_OK"
             /\ SameSinkAs(try_flush(Written(last'.data), TRUE))
             /\ queue' = queue)]_vars

\* the consumer went away with nothing delivered; the mdat of the first
\* fragment was written after that and released, with the init complete and
\* the decode time advanced by 1000
FanoutFailureNonFatalWitness ==
    /\ ~rx_alive
    /\ delivered = <<>>
    /\ last.op = "Write"
    /\ last.ret = "S_OK"
    /\ last.data = mdat_box
    /\ parser.init_complete
    /\ parser.pending_moof = <<>>
    /\ parser.cumulative_decode_time = <<1000, 0, 0, 0>>
    /\ Len(released) = 3
    /\ queue = <<>>

(***************************************************************************)
(* SpecDisabled: the encoder with either stream disabled or not, and the   *)
(* audio entry point                                                       *)
(***************************************************************************)
\* send_audio_buffer(&mut self, _buffer, _timestamp) (lines 574-576)
send_audio_buffer(e) == [ret |-> "Ok", enc |-> e]

SendAudioBuffer ==
    /\ producer.pc = "running"
    /\ enc_calls < MaxFrames
    /\ enc_calls' = enc_calls + 1
    /\ encoder' = send_audio_buffer(encoder).enc
    /\ enc_last' = [op |-> "send_audio_buffer", ret |-> send_audio_buffer(encoder).ret,
                    enqueued |-> FALSE]
    /\ UNCHANGED <<producer, frame_chan, worker, enqueued, sinkVars, fnVars, thrVars, wsVars>>

InitDisabled == EncoderStarted(BOOLEAN, BOOLEAN)

NextDisabled == NextEncoder \/ SendAudioBuffer

SpecDisabled == InitDisabled /\ [][NextDisabled]_vars

\* C25: with video disabled every send_frame returns VideoDisabled, with audio
\* disabled every send_audio_buffer returns AudioDisabled, and either call
\* enqueues nothing and leaves the encoder, first_timestamp included, unchanged
DisabledRejected ==
    /\ []((enc_last.op = "send_frame" /\ encoder.is_video_disabled)
            => (enc_last.ret = "VideoDisabled" /\ ~enc_last.enqueued))
    /\ []((enc_last.op = "send_audio_buffer" /\ encoder.is_audio_disabled)
            => (enc_last.ret = "AudioDisabled" /\ ~enc_last.enqueued))
    /\ [][((enc_last'.op = "send_frame" /\ encoder.is_video_disabled)
           \/ (enc_last'.op = "send_audio_buffer" /\ encoder.is_audio_disabled))
          => UNCHANGED <<encoder, frame_chan, enqueued>>]_<<enc_last, enc_calls>>

\* C26: send_frame returns FrameDropped exactly when its try_send finds the
\* channel full with the worker still holding the receiver; with the worker
\* gone it returns another error; and on_frame_arrived returns Ok on Ok and
\* FrameDropped and the error itself on everything else
FrameDroppedOnlyNonFatal ==
    /\ [][(producer.pc = "try_send" /\ producer'.pc = "running")
            => /\ enc_last'.ret = "FrameDropped"
                    <=> (Len(frame_chan) = 2 /\ receiver_alive)
               /\ ~receiver_alive => enc_last'.ret \notin {"Ok", "FrameDropped"}]_vars
    /\ [][(enc_last'.op = "send_frame" /\ enc_last'.ret = "FrameDropped")
            => (enc_last' = enc_last \/ producer.pc = "try_send")]_vars
    /\ []((enc_last.op = "send_frame" /\ producer.pc = "running")
            => /\ enc_last.ret \in {"Ok", "FrameDropped"} => enc_last.handler = "Ok"
               /\ enc_last.ret \notin {"Ok", "FrameDropped"}
                    => enc_last.handler = enc_last.ret)

\* a readable frame sent after the worker exited: VideoDisabled, propagated
FrameDroppedOnlyNonFatalWitness ==
    /\ enc_last.op = "send_frame"
    /\ producer.pc = "running"
    /\ enc_last.frame.buffer_ok
    /\ enc_last.frame.timestamp /= <<>>
    /\ worker.pc = "exited"
    /\ enc_last.ret = "VideoDisabled"
    /\ enc_last.handler = "VideoDisabled"

(***************************************************************************)
(* Properties of the box framer and of Seek under any calls                *)
(***************************************************************************)
\* C27: every box the framer handed to the rewriter was whole (its declared
\* size is the number of bytes handed over) and was released with
\* position >= bytes_flushed + atom_size; a whole box at the head of the
\* staging buffer in which the cursor lies stays in the buffer
ReleaseGate ==
    \A i \in 1..Len(released) :
        /\ U32(released[i].data, 0) = Len(released[i].data)
        /\ ~ULess(released[i].position, released[i].offset + Len(released[i].data))

\* a Write has run the framer on a buffer that holds a whole box while the
\* cursor lies inside it, and nothing was released
ReleaseGateWitness ==
    /\ last.op = "Write"
    /\ last.ret = "S_OK"
    /\ Len(buffer) >= 8
    /\ U32(buffer, 0) >= 8
    /\ Len(buffer) >= U32(buffer, 0)
    /\ ULess(position, bytes_flushed + U32(buffer, 0))
    /\ released = <<>>

\* C28: a Seek from CUR or END moves to the signed target position + delta
\* (resp. bytes_flushed + len(buffer) + delta) when that is not below
\* bytes_flushed, and to bytes_flushed when it is, negative targets included;
\* the call succeeds either way
SeekSignedClamp ==
    [][(/\ last'.op = "Seek"
        /\ last'.dworigin \in {SEEK_CUR, SEEK_END}
        /\ position >= 0)
       => LET target == IF last'.dworigin = SEEK_CUR THEN position + last'.dlibmove
                        ELSE bytes_flushed + Len(buffer) + last'.dlibmove
          IN  /\ last'.ret = "Ok"
              /\ position' = IF target < bytes_flushed THEN bytes_flushed ELSE target]_vars

(***************************************************************************)
(* Properties of the rewriter's handling of moov                           *)
(***************************************************************************)
\* C29: a moov that reaches the rewriter when init_complete is already true
\* puts no segment on the outbound queue and changes none of init_complete,
\* pending_moof, cumulative_decode_time
LateMoovDiscarded ==
    [][(/\ last'.op = "Write"
        /\ last'.ret = "S_OK"
        /\ Slice(last'.data, 4, 8) = T_moov
        /\ Len(released') = Len(released) + 1
        /\ parser.init_complete)
       => (/\ queue' = queue
           /\ parser'.init_complete = parser.init_complete
           /\ parser'.pending_moof = parser.pending_moof
           /\ parser'.cumulative_decode_time = parser.cumulative_decode_time)]_vars

(***************************************************************************)
(* SpecInit: whole boxes up to the init segment, with moov boxes that     *)
(* patch_moov can and cannot patch                                         *)
(***************************************************************************)
skip_box == Box(T_skip, <<9, 9>>)

\* tkhd 0x0 and an avc1 entry whose dimensions are 0x0
moov_zero_dims ==
    Box(T_moov, mvex_box \o Box(T_trak, tkhd_box(0, 0, 0)
                                        \o Box(T_mdia, avc1_box(0, 0))))
\* an avc1 entry of 640x360 and no tkhd
moov_no_tkhd ==
    Box(T_moov, mvex_box \o Box(T_trak, Box(T_mdia, avc1_box(640, 360))))
\* a child whose declared size is 4
moov_bad_child ==
    Box(T_moov, mvex_box \o <<0, 0, 0, 4>> \o T_free \o Fill(8))
\* an iods, then a child whose declared size runs past the end of the moov
moov_iods_bad_child ==
    Box(T_moov, mvex_box \o iods_box \o <<0, 0, 1, 0>> \o T_trak \o Fill(8))
\* tkhd 0x0 and an avc1 entry of 640x360: what patch_moov is written for
moov_patchable ==
    Box(T_moov, mvex_box \o Box(T_trak, tkhd_box(0, 0, 0)
                                        \o Box(T_mdia, avc1_box(640, 360))))

\* moov boxes without iods that patch_moov returns as they are
UnpatchedMoovs == {moov_box, moov_zero_dims, moov_no_tkhd, moov_bad_child}

InitBoxes ==
    {ftyp_box, free_box, skip_box, mdat_box, moov_patchable, moov_iods_bad_child}
      \cup UnpatchedMoovs

\* Most boxes written in a session of SpecInit.
MaxInitBoxes == 3

InitWrite == WriteBox(InitBoxes, MaxInitBoxes)

NextInit == InitWrite \/ Recv

SpecInit == Init /\ [][NextInit]_vars

\* the bytes of the released atoms of type ftyp, free, meta, skip among the
\* first n, in order
RECURSIVE Accumulated(_, _)
Accumulated(rel, n) ==
    IF n = 0 THEN <<>>
    ELSE Accumulated(rel, n - 1)
           \o (IF Slice(rel[n].data, 4, 8) \in {T_ftyp, T_free, T_meta, T_skip}
               THEN rel[n].data ELSE <<>>)

\* seg is an Init segment made of acc followed by one whole moov box, which
\* is the moov written when that is one patch_moov leaves as it is
InitOf(seg, acc, written) ==
    /\ seg.kind = "Init"
    /\ Len(seg.data) >= Len(acc) + 8
    /\ Slice(seg.data, 0, Len(acc)) = acc
    /\ Slice(seg.data, Len(acc) + 4, Len(acc) + 8) = T_moov
    /\ U32(seg.data, Len(acc)) = Len(seg.data) - Len(acc)
    /\ written \in UnpatchedMoovs => Slice(seg.data, Len(acc), Len(seg.data)) = written
    /\ written = moov_iods_bad_child
         => Slice(seg.data, Len(acc), Len(seg.data)) = Box(T_moov, mvex_box)

\* C30: the first moov, whether or not patch_moov could patch it (no avc1 with
\* non-zero dimensions, no tkhd, malformed child sizes), sets init_complete and
\* puts exactly one segment on the queue: an Init made of the accumulated
\* ftyp/free/meta/skip bytes followed by the moov
BestEffortInit ==
    [][(/\ last'.op = "Write"
        /\ last'.ret = "S_OK"
        /\ Slice(last'.data, 4, 8) = T_moov
        /\ ~parser.init_complete)
       => (/\ parser'.init_complete
           /\ Len(queue') = Len(queue) + 1
           /\ SubSeq(queue', 1, Len(queue)) = queue
           /\ InitOf(queue'[Len(queue')], Accumulated(released, Len(released)),
                     last'.data))]_vars

\* ftyp, free, then a moov without tkhd: one Init with the three in order
BestEffortInitWitness ==
    /\ last.op = "Write"
    /\ last.data = moov_no_tkhd
    /\ parser.init_complete
    /\ delivered = <<>>
    /\ Len(queue) = 1
    /\ queue[1].kind = "Init"
    /\ queue[1].data = ftyp_box \o free_box \o moov_no_tkhd

\* a segment of kind Init is on the queue or was delivered
InitEmitted ==
    \/ \E k \in 1..Len(queue) : queue[k].kind = "Init"
    \/ \E k \in 1..Len(delivered) : delivered[k].kind = "Init"

\* C31: the Init segment is emitted when the first moov is processed; its bytes
\* are every ftyp, free, meta and skip box released before, in arrival order,
\* followed by the patched moov; init_complete becomes true and the
\* init_segment accumulator is emptied
InitAssembly ==
    [][(/\ last'.op = "Write"
        /\ last'.ret = "S_OK"
        /\ Slice(last'.data, 4, 8) = T_moov
        /\ ~parser.init_complete)
       => (/\ ~InitEmitted
           /\ parser.init_segment = Accumulated(released, Len(released))
           /\ queue' = Append(queue,
                  Segment("Init",
                          Accumulated(released, Len(released)) \o patch_moov(last'.data),
                          queue'[Len(queue')].src))
           /\ parser'.init_complete
           /\ parser'.init_segment = <<>>)]_vars

\* free, ftyp, then a moov that patch_moov changes
InitAssemblyWitness ==
    /\ last.op = "Write"
    /\ last.data = moov_patchable
    /\ patch_moov(moov_patchable) /= moov_patchable
    /\ parser.init_complete
    /\ parser.init_segment = <<>>
    /\ Len(released) = 3
    /\ released[1].data = free_box
    /\ released[2].data = ftyp_box
    /\ Len(queue) = 1
    /\ queue[1].data = free_box \o ftyp_box \o patch_moov(moov_patchable)

NoRepeat(ns) == \A i, j \in 1..Len(ns) : i /= j => ns[i] /= ns[j]

\* C32: after init_complete every mdat produces exactly one Media segment,
\* pending_moof followed by the mdat bytes (the mdat bytes alone when
\* pending_moof is empty), and pending_moof is cleared, so that no released
\* atom is emitted twice; before init_complete an mdat or a moof produces no
\* segment and leaves pending_moof empty
MdatPairing ==
    [][(/\ last'.op = "Write"
        /\ last'.ret = "S_OK"
        /\ Slice(last'.data, 4, 8) \in {T_mdat, T_moof})
       => IF parser.init_complete
          THEN Slice(last'.data, 4, 8) = T_mdat
                 => /\ queue' = Append(queue,
                          Segment("Media", parser.pending_moof \o last'.data,
                                  Append(parser.pending_src, Len(released'))))
                    /\ parser'.pending_moof = <<>>
                    /\ NoRepeat(SrcOf(delivered' \o queue'))
          ELSE /\ queue' = queue
               /\ parser.pending_moof = <<>>
               /\ parser'.pending_moof = <<>>
               /\ ~parser'.init_complete]_vars

\* moov, moof, mdat, mdat: one Media of moof and mdat, then one of the mdat
\* alone
MdatPairingWitness ==
    /\ last.op = "Write"
    /\ last.data = mdat_box
    /\ Len(released) = 4
    /\ released[2].data = moof_box
    /\ released[3].data = mdat_box
    /\ Len(Emitted) = 3
    /\ Emitted[2].kind = "Media"
    /\ Emitted[2].src = <<2, 3>>
    /\ Emitted[2].data = patch_moof(Zero64, moof_box).data \o mdat_box
    /\ Emitted[3] = Segment("Media", mdat_box, <<4>>)

\* 1000 times the sample_counts of the moofs among the first n released that
\* came after a moov, as a u64
RECURSIVE TicksBefore(_, _)
TicksBefore(rel, n) ==
    IF n = 0 THEN Zero64
    ELSE Add64(TicksBefore(rel, n - 1),
               IF /\ IsMoof(rel[n].data)
                  /\ \E k \in 1..(n - 1) : TypeOf(rel[k].data) = T_moov
               THEN Times1000(SampleCountOf(rel[n].data))
               ELSE Zero64)

\* C33: the tfdt injected into a moof processed after init carries
\* baseMediaDecodeTime equal to 1000 times the sum of the trun sample_counts of
\* the moofs processed before it
DecodeTimeSum ==
    [][(/\ last'.op = "Write"
        /\ last'.ret = "S_OK"
        /\ IsMoof(last'.data)
        /\ parser.init_complete)
       => (/\ TfdtOf(parser'.pending_moof) /= <<>>
           /\ TfdtOf(parser'.pending_moof)[1] \o <<0, 0>>
                = TicksBefore(released, Len(released)))]_vars

\* the byte the stream holds at absolute offset a once data was written at
\* the cursor: the byte written, else the byte staged before, else zero
AfterWrite(a, data) ==
    IF a >= position /\ a < position + Len(data) THEN data[a - position + 1]
    ELSE IF a < bytes_flushed + Len(buffer) THEN buffer[a - bytes_flushed + 1]
    ELSE 0

\* C34: a successful Write of n bytes at position p stores them at the absolute
\* offsets [p, p+n), zero-fills the gap between the old end of the buffer and
\* p, leaves every other byte as it was, whether the byte is still staged or
\* went out in an atom released by this call, moves position to p+n and
\* reports n
WriteSemantics ==
    [][(last'.op = "Write" /\ last'.ret = "S_OK")
       => (/\ ~ULess(position, bytes_flushed)
           /\ position' = position + Len(last'.data)
           /\ last'.pcbwritten = Len(last'.data)
           /\ bytes_flushed' + Len(buffer')
                = IF position + Len(last'.data) > bytes_flushed + Len(buffer)
                  THEN position + Len(last'.data)
                  ELSE bytes_flushed + Len(buffer)
           /\ \A k \in 1..Len(buffer') :
                 buffer'[k] = AfterWrite(bytes_flushed' + k - 1, last'.data)
           /\ \A r \in (Len(released) + 1)..Len(released') :
                 \A k \in 1..Len(released'[r].data) :
                    released'[r].data[k]
                      = AfterWrite(released'[r].offset + k - 1, last'.data))]_vars

\* 12 bytes of a 16-byte box, a seek 4 past the end, then a Write: the box
\* goes out with the gap zero-filled and the bytes written stay staged
WriteSemanticsWitness ==
    /\ last.op = "Write"
    /\ last.ret = "S_OK"
    /\ last.data = <<0, 0, 0, 12>>
    /\ Len(released) = 1
    /\ released[1].data = <<0, 0, 0, 16, 0, 0, 0, 0, 0, 0, 0, 0, 0, 0, 0, 0>>
    /\ bytes_flushed = 16
    /\ buffer = <<0, 0, 0, 12>>
    /\ position = 20

(***************************************************************************)
(* SpecThreads: Write, Seek and Stat called from two threads, step by step *)
(* between the lock operations                                             *)
(***************************************************************************)
\* Most calls the threads make in a session of SpecThreads.
MaxThreadCalls == 3

mdat_head == Box(T_mdat, <<>>)

\* What a thread may call: Write of a moov followed by an mdat (two segments),
\* of two mdat, of a lone size field, Seek to three places, Stat.
ThreadCalls ==
    {[op |-> "Write", data |-> Box(T_moov, <<>>) \o mdat_head],
     [op |-> "Write", data |-> mdat_head \o mdat_head],
     [op |-> "Write", data |-> <<0, 0, 0, 12>>],
     [op |-> "Seek", dlibmove |-> 0, dworigin |-> SEEK_SET],
     [op |-> "Seek", dlibmove |-> 4, dworigin |-> SEEK_CUR],
     [op |-> "Seek", dlibmove |-> 0, dworigin |-> SEEK_END],
     [op |-> "Stat"]}

\* a state guard dropped before try_flush is called
state_dropped_before_flush(t) == 0

\* the state lock's holder while the caller runs try_flush: the guard taken
\* at line 100 lives to the end of Write
state_held_in_flush(t) == t

\* Write with cursor test, resize, copy and try_flush on the sink s
write_whole(s, data) ==
    IF ULess(s.position, s.bytes_flushed) THEN s
    ELSE try_flush([s EXCEPT
             !.buffer = Put(Resize(s.buffer, s.position - s.bytes_flushed + Len(data)),
                            s.position - s.bytes_flushed, data),
             !.position = @ + Len(data)], TRUE)

\* Seek on the sink s
seek_whole(s, dlibmove, dworigin) ==
    LET target == IF dworigin = SEEK_SET THEN dlibmove
                  ELSE IF dworigin = SEEK_CUR THEN s.position + dlibmove
                  ELSE s.bytes_flushed + Len(s.buffer) + dlibmove
    IN  [s EXCEPT !.position = IF ULess(target, s.bytes_flushed)
                               THEN s.bytes_flushed ELSE target]

call_whole(s, call) ==
    IF call.op = "Write" THEN write_whole(s, call.data)
    ELSE IF call.op = "Seek" THEN seek_whole(s, call.dlibmove, call.dworigin)
    ELSE s

\* the first n calls of cs run whole, one after the other, from a new sink
RECURSIVE run_whole(_, _)
run_whole(cs, n) ==
    IF n = 0
    THEN [buffer |-> <<>>, position |-> 0, bytes_flushed |-> 0,
          parser |-> Mp4Parser_new, queue |-> <<>>, released |-> <<>>]
    ELSE call_whole(run_whole(cs, n - 1), cs[n])

thrSinkUnchanged ==
    UNCHANGED <<buffer, position, bytes_flushed, parser, queue, released, rx_alive,
                delivered, fnVars, encVars, wsVars>>

\* a thread enters Write, Seek or Stat
ThreadCall(t) ==
    \E call \in ThreadCalls :
        /\ threads[t].pc = "returned"
        /\ calls < MaxThreadCalls
        /\ calls' = calls + 1
        /\ threads' = [threads EXCEPT ![t] = [pc |-> "lock_state", call |-> call,
                                              id |-> calls + 1, segments |-> <<>>]]
        /\ last' = [op |-> "call", thread |-> t]
        /\ UNCHANGED <<state_lock, parser_lock, sends, order>>
        /\ thrSinkUnchanged

\* self.state.lock() returns (lines 100, 129, 160)
LockState(t) ==
    /\ threads[t].pc = "lock_state"
    /\ state_lock = 0
    /\ state_lock' = t
    /\ threads' = [threads EXCEPT ![t].pc = "body"]
    /\ order' = Append(order, threads[t].call)
    /\ last' = [op |-> "lock_state", thread |-> t]
    /\ UNCHANGED <<parser_lock, sends, calls>>
    /\ thrSinkUnchanged

\* Write from the cursor test to the call of try_flush (lines 102-118)
WriteCopy(t) ==
    /\ threads[t].pc = "body"
    /\ threads[t].call.op = "Write"
    /\ LET data == threads[t].call.data
           pos_in_buffer == position - bytes_flushed
           end_pos_in_buffer == pos_in_buffer + Len(data)
       IN  IF ULess(position, bytes_flushed)
           THEN /\ threads' = [threads EXCEPT ![t].pc = "unlock_state"]
                /\ UNCHANGED <<buffer, position, state_lock>>
           ELSE /\ buffer' = Put(Resize(buffer, end_pos_in_buffer), pos_in_buffer, data)
                /\ position' = position + Len(data)
                /\ threads' = [threads EXCEPT ![t].pc = "lock_parser"]
                /\ state_lock' = state_held_in_flush(t)
    /\ last' = [op |-> "copy", thread |-> t]
    /\ UNCHANGED <<bytes_flushed, parser, queue, released, rx_alive, delivered,
                   parser_lock, sends, order, calls, fnVars, encVars, wsVars>>

\* self.parser.lock() returns (line 41)
LockParser(t) ==
    /\ threads[t].pc = "lock_parser"
    /\ parser_lock = 0
    /\ parser_lock' = t
    /\ threads' = [threads EXCEPT ![t].pc = "flush"]
    /\ last' = [op |-> "lock_parser", thread |-> t]
    /\ UNCHANGED <<state_lock, sends, order, calls>>
    /\ thrSinkUnchanged

\* what parse gave for the atom drained: the parser is kept, the segments are
\* the thread's to send
StoreParsed(t, r) ==
    /\ parser' = r.parser
    /\ threads' = [threads EXCEPT ![t].pc = "send", ![t].segments = r.segments]

\* one turn of the loop of try_flush up to the for loop (lines 43-69)
FlushTurn(t) ==
    /\ threads[t].pc = "flush"
    /\ IF Len(buffer) < 8
       THEN /\ threads' = [threads EXCEPT ![t].pc = "unlock_parser"]
            /\ UNCHANGED <<buffer, bytes_flushed, parser, released>>
       ELSE IF U32(buffer, 0) < 8
       THEN /\ buffer' = Tail(buffer)
            /\ bytes_flushed' = bytes_flushed + 1
            /\ UNCHANGED <<threads, parser, released>>
       ELSE IF Len(buffer) < U32(buffer, 0)
               \/ ULess(position, bytes_flushed + U32(buffer, 0))
       THEN /\ threads' = [threads EXCEPT ![t].pc = "unlock_parser"]
            /\ UNCHANGED <<buffer, bytes_flushed, parser, released>>
       ELSE /\ buffer' = Drain(buffer, 0, U32(buffer, 0))
            /\ bytes_flushed' = bytes_flushed + U32(buffer, 0)
            /\ released' = Append(released, [data |-> Slice(buffer, 0, U32(buffer, 0)),
                                             offset |-> bytes_flushed,
                                             position |-> position])
            /\ StoreParsed(t, parse(parser, Slice(buffer, 0, U32(buffer, 0)),
                                    Len(released) + 1))
    /\ last' = [op |-> "flush", thread |-> t]
    /\ UNCHANGED <<position, queue, rx_alive, delivered, state_lock, parser_lock,
                   sends, order, calls, fnVars, encVars, wsVars>>

\* one turn of for segment in segments (lines 70-83), or its end
SendSegment(t) ==
    /\ threads[t].pc = "send"
    /\ IF threads[t].segments = <<>>
       THEN /\ threads' = [threads EXCEPT ![t].pc = "flush"]
            /\ UNCHANGED <<queue, sends>>
       ELSE /\ queue' = send_all(queue, <<Head(threads[t].segments)>>, rx_alive)
            /\ sends' = Append(sends, threads[t].id)
            /\ threads' = [threads EXCEPT ![t].segments = Tail(@)]
    /\ last' = [op |-> "send", thread |-> t]
    /\ UNCHANGED <<buffer, position, bytes_flushed, parser, released, rx_alive,
                   delivered, state_lock, parser_lock, order, calls, fnVars, encVars, wsVars>>

\* try_flush returns: its parser guard is dropped (line 86)
UnlockParser(t) ==
    /\ threads[t].pc = "unlock_parser"
    /\ parser_lock' = IF parser_lock = t THEN 0 ELSE parser_lock
    /\ threads' = [threads EXCEPT ![t].pc = "unlock_state"]
    /\ last' = [op |-> "unlock_parser", thread |-> t]
    /\ UNCHANGED <<state_lock, sends, order, calls>>
    /\ thrSinkUnchanged

\* Seek between the lock and the return (lines 130-147)
SeekBody(t) ==
    /\ threads[t].pc = "body"
    /\ threads[t].call.op = "Seek"
    /\ position' = seek_whole(SinkState, threads[t].call.dlibmove,
                              threads[t].call.dworigin).position
    /\ threads' = [threads EXCEPT ![t].pc = "unlock_state"]
    /\ last' = [op |-> "seek", thread |-> t]
    /\ UNCHANGED <<buffer, bytes_flushed, parser, queue, released, rx_alive, delivered,
                   state_lock, parser_lock, sends, order, calls, fnVars, encVars, wsVars>>

\* Stat between the lock and the return (lines 160-164)
StatBody(t) ==
    /\ threads[t].pc = "body"
    /\ threads[t].call.op = "Stat"
    /\ threads' = [threads EXCEPT ![t].pc = "unlock_state"]
    /\ last' = [op |-> "stat", thread |-> t, cbSize |-> bytes_flushed + Len(buffer)]
    /\ UNCHANGED <<state_lock, parser_lock, sends, order, calls>>
    /\ thrSinkUnchanged

\* the call returns: its state guard is dropped
UnlockState(t) ==
    /\ threads[t].pc = "unlock_state"
    /\ state_lock' = IF state_lock = t THEN 0 ELSE state_lock
    /\ threads' = [threads EXCEPT ![t] = Returned_thread]
    /\ last' = [op |-> "return", thread |-> t]
    /\ UNCHANGED <<parser_lock, sends, order, calls>>
    /\ thrSinkUnchanged

ThreadStep(t) ==
    \/ LockState(t) \/ WriteCopy(t) \/ LockParser(t) \/ FlushTurn(t)
    \/ SendSegment(t) \/ UnlockParser(t) \/ SeekBody(t) \/ StatBody(t)
    \/ UnlockState(t)

NextThreads == \E t \in Threads : ThreadCall(t) \/ ThreadStep(t)

SpecThreads == Init /\ [][NextThreads]_vars

Contiguous(ns) ==
    \A i, j, k \in 1..Len(ns) : (i < j /\ j < k /\ ns[i] = ns[k]) => ns[j] = ns[i]

\* C35: calls from several threads are serialized by the state lock: the
\* parser lock is only taken and held under the state lock, some thread in a
\* call can always take a step, whenever no call holds the state lock the sink,
\* the rewriter and the queue are what the calls run one after the other in
\* the order of their locking would have left, and the segments sent by one
\* call are next to each other on the queue
Serialized ==
    /\ \A t \in Threads :
          /\ parser_lock = t => state_lock = t
          /\ threads[t].pc \in {"lock_parser", "flush", "send", "unlock_parser"}
               => state_lock = t
          /\ threads[t].pc = "lock_state" => parser_lock /= t
    /\ (\E t \in Threads : threads[t].pc /= "returned")
         => \E t \in Threads : ENABLED ThreadStep(t)
    /\ state_lock = 0 => SinkState = run_whole(order, Len(order))
    /\ Len(sends) = Len(queue)
    /\ Contiguous(sends)

\* one thread is between the two segments of its Write while the other waits
\* for the state lock with a Write of its own
SerializedWitness ==
    \E t, u \in Threads :
        /\ t /= u
        /\ threads[t].pc = "send"
        /\ threads[t].segments /= <<>>
        /\ sends /= <<>>
        /\ sends[Len(sends)] = threads[t].id
        /\ threads[u].pc = "lock_state"
        /\ threads[u].call.op = "Write"

\* release k was a moof that another moof followed with no mdat in between
Replaced(rel, k) ==
    /\ IsMoof(rel[k].data)
    /\ \E j \in (k + 1)..Len(rel) :
          /\ IsMoof(rel[j].data)
          /\ \A i \in (k + 1)..(j - 1) : TypeOf(rel[i].data) /= T_mdat

\* C36: pending_moof holds at most one patched moof: a second moof processed
\* before any mdat replaces the first and sends nothing,
\* cumulative_decode_time is advanced for it as it was for the first, and a
\* moof that was replaced is in no segment sent
OnePendingMoof ==
    [][/\ (parser'.pending_moof /= <<>>
             => /\ IsMoof(parser'.pending_moof)
                /\ Len(parser'.pending_src) = 1)
       /\ \A k \in 1..Len(released') :
             Replaced(released', k)
               => \A i \in 1..Len(SrcOf(delivered' \o queue')) :
                     SrcOf(delivered' \o queue')[i] /= k
       /\ (/\ last'.op = "Write"
           /\ last'.ret = "S_OK"
           /\ IsMoof(last'.data)
           /\ parser.pending_moof /= <<>>)
          => (/\ parser'.pending_moof
                   = patch_moof(parser.cumulative_decode_time, last'.data).data
              /\ parser'.pending_src = <<Len(released')>>
              /\ queue' = queue
              /\ parser'.cumulative_decode_time /= parser.cumulative_decode_time
              /\ LimbsLeq(parser.cumulative_decode_time,
                          parser'.cumulative_decode_time))]_vars

\* moov, moof, moof, mdat: the Media sent holds the second moof only and the
\* decode time counts both
OnePendingMoofWitness ==
    /\ Len(released) = 4
    /\ released[2].data = moof_box
    /\ released[3].data = moof_box
    /\ released[4].data = mdat_box
    /\ Len(Emitted) = 2
    /\ Emitted[2].src = <<3, 4>>
    /\ Emitted[2].data = patch_moof(<<1000, 0, 0, 0>>, moof_box).data \o mdat_box
    /\ parser.cumulative_decode_time = <<2000, 0, 0, 0>>

\* C37: a Seek changes only position and a Stat changes nothing: neither
\* changes buffer, bytes_flushed or the rewriter, releases an atom or puts
\* anything on the queue, even when the seek takes the cursor past a whole
\* buffered box
SeekStatNoRelease ==
    [][(last'.op \in {"Seek", "Stat"})
       => (/\ UNCHANGED <<buffer, bytes_flushed, parser, queue, released, delivered,
                          rx_alive>>
           /\ last'.op = "Stat" => UNCHANGED position)]_vars

\* a whole box is staged and a Seek has just taken the cursor to its end
SeekStatNoReleaseWitness ==
    /\ last.op = "Seek"
    /\ last.ret = "Ok"
    /\ Len(buffer) >= 8
    /\ U32(buffer, 0) >= 8
    /\ Len(buffer) >= U32(buffer, 0)
    /\ position >= 0
    /\ position >= bytes_flushed + U32(buffer, 0)

(***************************************************************************)
(* SpecFair: the sink under any calls, with the consumer task scheduled.   *)
(* The sink writer is free to stop calling at any point: no call is owed.  *)
(***************************************************************************)
SpecFair == Spec /\ WF_vars(Recv)

\* a whole box lies at the head of the buffer, at offset o, and the cursor is
\* at or past its end
StagedPast(o) ==
    /\ bytes_flushed = o
    /\ Len(buffer) >= 8
    /\ U32(buffer, 0) >= 8
    /\ Len(buffer) >= U32(buffer, 0)
    /\ position >= 0
    /\ position >= o + U32(buffer, 0)

\* C38: every top-level box that was written whole into the staging buffer and
\* that the cursor has moved past is eventually released to the rewriter, the
\* last box of a session included
EventualRelease ==
    \A o \in 0..MaxPos :
        StagedPast(o) ~> (\E k \in 1..Len(released) : released[k].offset = o)

\* how many of the segments are of kind Init
InitCount(segs) == Len(SelectSeq(segs, LAMBDA x : x.kind = "Init"))

\* C39: at most one Init segment is sent in a session: init_complete never
\* goes back to false, and once it is true no box, a further ftyp or moov
\* included, makes another segment of kind Init
SingleInit ==
    [][/\ InitCount(delivered' \o queue') <= 1
       /\ parser.init_complete
            => /\ parser'.init_complete
               /\ InitCount(delivered' \o queue') = InitCount(delivered \o queue)
               /\ InitCount(delivered' \o queue') = 1]_vars

\* moov, ftyp, moov: one Init, and the second moov went out as something else
SingleInitWitness ==
    /\ Len(released) = 3
    /\ released[1].data = moov_box
    /\ released[2].data = ftyp_box
    /\ released[3].data = moov_box
    /\ parser.init_complete
    /\ InitCount(Emitted) = 1
    /\ Len(Emitted) = 2

(***************************************************************************)
(* SpecConnect: main waiting in wait_for_connection while the task it      *)
(* spawned runs connect_loop                                               *)
(***************************************************************************)
\* Most connection attempts that fail in a session of SpecConnect.
MaxFailures == 3

\* The holders of the mutex of tx.
WaiterTask == 1
ConnectorTask == 2

connUnchanged == UNCHANGED <<sinkVars, fnVars, encVars, thrVars>>

\* main.rs:149-155: connect_loop is spawned with the url given on the command
\* line and main calls wait_for_connection
MainSpawn ==
    /\ waiter.pc = "main"
    /\ \E scheme \in {"ws", "wss"} :
          connector' = [pc |-> "connect", scheme |-> scheme, failures |-> 0]
    /\ waiter' = [waiter EXCEPT !.pc = "lock_tx"]
    /\ UNCHANGED <<tx_slot, tx_lock>>
    /\ connUnchanged

\* the attempt failed: on to the sleep of line 92 (line 66 for TLS)
attempt_failed(c) == [c EXCEPT !.pc = "sleep", !.failures = @ + 1]

\* TcpStream::connect(&addr).await (lines 45, 89)
TcpConnect ==
    /\ connector.pc = "connect"
    /\ \/ connector' = [connector EXCEPT
                           !.pc = IF connector.scheme = "wss" THEN "tls"
                                  ELSE "client_async"]
       \/ /\ connector.failures < MaxFailures
          /\ connector' = attempt_failed(connector)
    /\ UNCHANGED <<tx_slot, tx_lock, waiter>>
    /\ connUnchanged

\* cx.connect(host, stream).await (lines 59-69)
TlsConnect ==
    /\ connector.pc = "tls"
    /\ \/ connector' = [connector EXCEPT !.pc = "client_async"]
       \/ /\ connector.failures < MaxFailures
          /\ connector' = attempt_failed(connector)
    /\ UNCHANGED <<tx_slot, tx_lock, waiter>>
    /\ connUnchanged

\* client_async(request, stream).await and the match on its result
\* (lines 62, 73, 76-78, 86)
ClientAsync ==
    /\ connector.pc = "client_async"
    /\ \/ connector' = [connector EXCEPT !.pc = "lock_tx"]
       \/ /\ connector.failures < MaxFailures
          /\ connector' = attempt_failed(connector)
    /\ UNCHANGED <<tx_slot, tx_lock, waiter>>
    /\ connUnchanged

\* sleep(reconnect_interval).await (lines 66, 92)
Sleep ==
    /\ connector.pc = "sleep"
    /\ connector' = [connector EXCEPT !.pc = "connect"]
    /\ UNCHANGED <<tx_slot, tx_lock, waiter>>
    /\ connUnchanged

\* let mut lock = self.tx.lock().await (line 79)
ConnectorLock ==
    /\ connector.pc = "lock_tx"
    /\ tx_lock = 0
    /\ tx_lock' = ConnectorTask
    /\ connector' = [connector EXCEPT !.pc = "store"]
    /\ UNCHANGED <<tx_slot, waiter>>
    /\ connUnchanged

\* *lock = Some(ws_stream) (line 80)
Store ==
    /\ connector.pc = "store"
    /\ tx_slot' = "Some"
    /\ connector' = [connector EXCEPT !.pc = "drop_lock"]
    /\ UNCHANGED <<tx_lock, waiter>>
    /\ connUnchanged

\* drop(lock) (line 81)
DropLock ==
    /\ connector.pc = "drop_lock"
    /\ tx_lock' = 0
    /\ connector' = [connector EXCEPT !.pc = "notify"]
    /\ UNCHANGED <<tx_slot, waiter>>
    /\ connUnchanged

\* Notify::notify_waiters: every Notified that exists is woken, and no permit
\* is kept for one made later
notify_waiters(w) ==
    IF w.notified = "created" THEN [w EXCEPT !.notified = "woken"] ELSE w

\* self.notify.notify_waiters() (line 82)
NotifyWaiters ==
    /\ connector.pc = "notify"
    /\ waiter' = notify_waiters(waiter)
    /\ connector' = [connector EXCEPT !.pc = "read_sleep"]
    /\ UNCHANGED <<tx_slot, tx_lock>>
    /\ connUnchanged

\* read_loop: sleep(Duration::from_secs(1)).await (line 98)
ReadSleep ==
    /\ connector.pc = "read_sleep"
    /\ connector' = [connector EXCEPT !.pc = "read_lock"]
    /\ UNCHANGED <<tx_slot, tx_lock, waiter>>
    /\ connUnchanged

\* read_loop: the lock is taken, the slot tested and the lock dropped
\* (lines 99-100); a slot found empty ends read_loop and leads to line 92
ReadCheck ==
    /\ connector.pc = "read_lock"
    /\ tx_lock = 0
    /\ connector' = [connector EXCEPT
                        !.pc = IF tx_slot = "None" THEN "sleep" ELSE "read_sleep"]
    /\ UNCHANGED <<tx_slot, tx_lock, waiter>>
    /\ connUnchanged

\* wait_for_connection: self.tx.lock().await (line 114)
WaitLock ==
    /\ waiter.pc = "lock_tx"
    /\ tx_lock = 0
    /\ tx_lock' = WaiterTask
    /\ waiter' = [waiter EXCEPT !.pc = "is_some"]
    /\ UNCHANGED <<tx_slot, connector>>
    /\ connUnchanged

\* .is_some() and the return of line 115; the guard is a temporary of the
\* condition and is dropped with it
WaitIsSome ==
    /\ waiter.pc = "is_some"
    /\ tx_lock' = 0
    /\ waiter' = [waiter EXCEPT !.pc = IF tx_slot = "Some" THEN "returned"
                                       ELSE "notified"]
    /\ UNCHANGED <<tx_slot, connector>>
    /\ connUnchanged

\* self.notify.notified() (line 117): the Notified is made
WaitNotified ==
    /\ waiter.pc = "notified"
    /\ waiter' = [waiter EXCEPT !.pc = "await", !.notified = "created"]
    /\ UNCHANGED <<tx_slot, tx_lock, connector>>
    /\ connUnchanged

\* .await on the Notified returns once it was woken
WaitWoken ==
    /\ waiter.pc = "await"
    /\ waiter.notified = "woken"
    /\ waiter' = [waiter EXCEPT !.pc = "returned"]
    /\ UNCHANGED <<tx_slot, tx_lock, connector>>
    /\ connUnchanged

NextConnect ==
    \/ MainSpawn
    \/ TcpConnect \/ TlsConnect \/ ClientAsync \/ Sleep
    \/ ConnectorLock \/ Store \/ DropLock \/ NotifyWaiters \/ ReadSleep \/ ReadCheck
    \/ WaitLock \/ WaitIsSome \/ WaitNotified \/ WaitWoken

SpecConnect == Init /\ [][NextConnect]_vars

\* Both tasks are scheduled by the runtime, and the mutex of tx is fair: a
\* task that keeps asking for it gets it.
SpecConnectFair ==
    /\ SpecConnect
    /\ WF_vars(MainSpawn) /\ WF_vars(WaitIsSome) /\ WF_vars(WaitNotified)
    /\ WF_vars(WaitWoken) /\ SF_vars(WaitLock)
    /\ WF_vars(TcpConnect) /\ WF_vars(TlsConnect) /\ WF_vars(ClientAsync)
    /\ WF_vars(Sleep) /\ SF_vars(ConnectorLock) /\ WF_vars(Store)
    /\ WF_vars(DropLock) /\ WF_vars(NotifyWaiters) /\ WF_vars(ReadSleep)
    /\ SF_vars(ReadCheck)

\* C40: once connect_loop has stored a connection, wait_for_connection
\* eventually returns, in every interleaving of the two tasks
WaitReturns == (tx_slot = "Some") ~> (waiter.pc = "returned")

====
